---- MODULE Spec2Model ----
(***************************************************************************)
(* ESPER-THESIS: the five scoring agents, the router and the pipeline      *)
(* orchestrator, in their two variants: the package (src/esper_thesis)     *)
(* and the single-file standalone (esper-thesis/standalone).               *)
(*                                                                         *)
(* Texts.  A Python str is modelled as the sequence of its whitespace      *)
(* separated words (each word a TLA+ string), i.e. the words joined by     *)
(* single spaces.  str.lower, str.split, str.isalnum, len and the          *)
(* substring test `kw in text` are computed character by character on      *)
(* the words.                                                              *)
(*                                                                         *)
(* Scores.  A Python float score x is the integer x * One.  Every          *)
(* constant of the scorers is a multiple of 1/One, so sums, products by    *)
(* the weights and the division by 6 of the default priority are exact.    *)
(* Where IEEE-754 double rounding moves a value across a threshold that    *)
(* the routers test, the value carries the rounding as +1 or -1 (see       *)
(* RoundingOfWeightedSum and RoundingOfMission).                           *)
(***************************************************************************)
EXTENDS Integers, Sequences, FiniteSets, TLC

VARIABLES
    input,      \* the arguments of process_research_item
    corpus,     \* existing_packets: the list of dicts handed to the pipeline
    variant,    \* "standalone" | "package": which implementation runs
    runs,       \* the packets returned by the successive pipeline runs
    clock,      \* datetime.now(), a counter
    pkt,        \* the packet handed to route_research (router specification)
    routed,     \* what route_research returned for pkt
    args,       \* the argparse Namespace of the last command line
    environ,    \* os.environ[ENV_VAR] and the content of CONFIG_FILE
    files,      \* the file system: what each database path holds
    packets,    \* the list main loaded and cmd_create appends to
    outcome     \* how the last call ended: what it returned or raised

\* the state of the command line layer
cli == <<args, environ, files, packets, outcome>>

vars == <<input, corpus, variant, runs, clock, pkt, routed, args, environ, files, packets, outcome>>

-----------------------------------------------------------------------------
(* Fixed point *)

\* 1.0; a multiple of 60000 so that x/100 steps, the weights and /6 are exact,
\* times 100 to leave room for one unit of floating-point rounding
One == 60000 * 100

Pct(n) == n * (One \div 100)

Min(a, b) == IF a <= b THEN a ELSE b
Max(a, b) == IF a >= b THEN a ELSE b
Abs(a) == IF a >= 0 THEN a ELSE 0 - a

Range(s) == {s[i] : i \in DOMAIN s}

RECURSIVE SumSeq(_)
SumSeq(s) == IF s = <<>> THEN 0 ELSE Head(s) + SumSeq(Tail(s))

\* Python None
None == [none |-> TRUE]

\* how a call ends: with a value, or with an exception
Returned(value) == [returned |-> value]

Raised(exception) == [raised |-> exception]

\* dict.get(key, default)
Get(d, key, default) == IF key \in DOMAIN d THEN d[key] ELSE default

-----------------------------------------------------------------------------
(* Strings, character by character *)

UpperCase == "ABCDEFGHIJKLMNOPQRSTUVWXYZ"
LowerCase == "abcdefghijklmnopqrstuvwxyz"
Digits == "0123456789"

CharAt(s, i) == SubSeq(s, i, i)

\* kw in s
Contains(kw, s) ==
    \E i \in 1..(Len(s) - Len(kw) + 1) : SubSeq(s, i, i + Len(kw) - 1) = kw

StartsWith(s, p) == Len(p) <= Len(s) /\ SubSeq(s, 1, Len(p)) = p

\* s.endswith(p)
EndsWith(s, p) == Len(p) <= Len(s) /\ SubSeq(s, Len(s) - Len(p) + 1, Len(s)) = p

LowerChar(c) ==
    IF \E i \in 1..Len(UpperCase) : CharAt(UpperCase, i) = c
    THEN CharAt(LowerCase, CHOOSE i \in 1..Len(UpperCase) : CharAt(UpperCase, i) = c)
    ELSE c

RECURSIVE LowerStr(_)
\* s.lower()
LowerStr(s) ==
    IF s = "" THEN "" ELSE LowerChar(CharAt(s, 1)) \o LowerStr(SubSeq(s, 2, Len(s)))

\* s.isalnum(): non-empty, every character a letter or a digit
IsAlnumStr(s) ==
    /\ Len(s) > 0
    /\ \A i \in 1..Len(s) : Contains(CharAt(s, i), UpperCase \o LowerCase \o Digits)

\* s.count(c) for a one-character c
CountChar(s, c) == Cardinality({i \in 1..Len(s) : CharAt(s, i) = c})

\* s.split(): the maximal runs of non-space characters of s, in order
SplitStr(s) ==
    LET n == Len(s)
        starts == {i \in 1..n : CharAt(s, i) # " " /\ (i = 1 \/ CharAt(s, i - 1) = " ")}
        EndOf(i) == CHOOSE j \in i..n :
                        /\ \A k \in i..j : CharAt(s, k) # " "
                        /\ (j = n \/ CharAt(s, j + 1) = " ")
        Nth(k) == CHOOSE i \in starts : Cardinality({j \in starts : j < i}) = k - 1
    IN  [k \in 1..Cardinality(starts) |-> SubSeq(s, Nth(k), EndOf(Nth(k)))]

Words(s) == SplitStr(s)

-----------------------------------------------------------------------------
(* Texts as word sequences *)

\* the bounds of the inputs
MaxPhrases == 2
MaxCorpus == 4

TitleLiteracy == <<"A", "Novel", "Framework", "for", "Literacy">>
TitleStudy == <<"Reading", "study">>

Phrases == <<
    <<"This", "is", "the", "first", "paradigm", "for", "literacy", "validated", "by", "Claude.">>,
    <<"However", "results", "remain", "unclear", "because", "one", "contradiction", "is",
      "inconsistent.">>,
    <<"It", "builds", "on", "prior", "theory,", "extends", "the", "following", "model",
      "based", "on", "field", "test", "experiment", "replicated", "in", "real-world",
      "deployment.">>,
    <<"novel", "unique", "innovative", "original", "unprecedented", "groundbreaking",
      "pioneering", "revolutionary", "breakthrough", "fundamental", "transforms", "new",
      "paradigm">>,
    <<"reading", "teaching", "education", "learning", "accessible", "narrative",
      "comprehension", "liberation", "students", "learners", "language", "algorithm",
      "cognitive", "neuroscience", "pedagogy", "ai">>,
    <<"hypothesis", "validation", "empirical", "research", "study", "application",
      "implementation", "production", "commercial", "practical", "platform", "pipeline",
      "rollout", "tooling">> >>

RECURSIVE Flatten(_)
Flatten(ss) == IF ss = <<>> THEN <<>> ELSE Head(ss) \o Flatten(Tail(ss))

\* every abstract made of at most MaxPhrases phrases
Abstracts ==
    {Flatten([i \in DOMAIN ix |-> Phrases[ix[i]]]) :
        ix \in UNION {[1..n -> DOMAIN Phrases] : n \in 0..MaxPhrases}}

FindingsNone == <<>>
FindingsTwo == << <<"The", "first", "result", "of", "its", "kind">>, <<"A", "second", "result">> >>
FindingsThree == << <<"One", "result">>, <<"Another", "result">>, <<"The", "only", "novel", "result">> >>

\* phrases that name what a record depends on
DepPhrases == <<
    <<"It", "requires", "data">>,
    <<"Depends", "on", "data,">>,
    <<"assumes", "data", "requires", "Models.">>,
    <<"requires", "models", "requires", "theory,">> >>

Vocab ==
    UNION ({Range(TitleLiteracy), Range(TitleStudy)}
           \cup {Range(Phrases[i]) : i \in DOMAIN Phrases}
           \cup {Range(DepPhrases[i]) : i \in DOMAIN DepPhrases}
           \cup {Range(f) : f \in Range(FindingsTwo) \cup Range(FindingsThree)})

LowerWord == [w \in Vocab |-> LowerStr(w)]

LowerVocab == {LowerWord[w] : w \in Vocab}

\* text.lower()
lower(text) == [i \in DOMAIN text |-> LowerWord[text[i]]]

\* title + " " + abstract
Cat(a, b) == a \o b

\* text.split()
split(text) == text

\* len(abstract.split('.'))
DotsOf == [w \in Vocab |-> CountChar(w, ".")]
SplitDotLen(text) == 1 + SumSeq([i \in DOMAIN text |-> DotsOf[text[i]]])

\* len(word) > 4 and word.isalnum()
IsKeyword == [w \in Vocab |-> Len(w) > 4 /\ IsAlnumStr(w)]

-----------------------------------------------------------------------------
(* The keyword tables of the agents *)

foundation_keywords == <<"builds on", "extends", "based on", "following", "prior">>

breakthrough_keywords_sa == <<
    "first", "novel", "unprecedented", "breakthrough", "revolutionary",
    "paradigm", "fundamental", "groundbreaking", "transforms" >>

breakthrough_keywords_pkg == <<
    "first", "novel", "unprecedented", "breakthrough", "new paradigm", "revolutionary" >>

novelty_keywords == <<
    "first", "novel", "new", "innovative", "original", "unprecedented",
    "unique", "groundbreaking", "pioneering" >>

paradigm_indicators == <<
    "paradigm", "revolutionary", "transforms", "fundamentally changes",
    "redefines", "breakthrough" >>

unique_markers == <<"first", "only", "unique", "novel">>

academic_keywords == <<
    "theory", "framework", "model", "hypothesis", "validation",
    "empirical", "research", "study" >>

industry_keywords_sa == <<
    "application", "implementation", "production", "commercial",
    "practical", "real-world", "deployment" >>

industry_keywords_pkg == <<
    "deployment", "production", "tooling", "platform", "pipeline", "rollout" >>

mission_keywords_sa == <<
    "literacy", "reading", "teaching", "education", "learning",
    "accessible", "narrative", "comprehension", "liberation" >>

mission_keywords_pkg == <<"literacy", "reading", "comprehension", "students", "learners">>

novelty_mission_keywords == <<"literacy", "reading", "comprehension">>

\* domain_map of the standalone impact_agent, in dict order
domain_map == <<
    [domain |-> "ai", keywords |-> <<"artificial intelligence", "machine learning", "ai">>],
    [domain |-> "linguistics", keywords |-> <<"language", "semantic", "linguistic">>],
    [domain |-> "education", keywords |-> <<"teaching", "learning", "education">>],
    [domain |-> "psychology", keywords |-> <<"cognitive", "psychology", "emotion">>],
    [domain |-> "computer_science", keywords |-> <<"algorithm", "computation", "software">>] >>

\* domain_markers of the package novelty_agent, in dict order
domain_markers == <<
    [marker |-> "ai", domain |-> "ai"],
    [marker |-> "machine learning", domain |-> "ai"],
    [marker |-> "education", domain |-> "education"],
    [marker |-> "pedagogy", domain |-> "education"],
    [marker |-> "cognitive", domain |-> "cognitive_science"],
    [marker |-> "neuroscience", domain |-> "neuroscience"] >>

ai_systems == <<"claude", "perplexity", "vox", "gemini", "grok", "copilot">>

ai_markers == <<"claude", "gpt", "perplexity", "ai system">>

OtherKeywords == {
    "because", "therefore", "however", "although", "contradiction", "unclear",
    "ambiguous", "validated by", "tested with", "field test", "real-world",
    "turing tour", "reproducible", "replicated", "reproduced", "inconsistent",
    "experiment", "immediate", "now", "future", "long-term", "builds on",
    "validates", "extends", "method", "framework", "paradigm", "fundamental",
    "first", "novel", "unique" }

AllKeywords ==
    OtherKeywords
    \cup UNION {Range(k) : k \in {foundation_keywords, breakthrough_keywords_sa,
                                  breakthrough_keywords_pkg, novelty_keywords,
                                  paradigm_indicators, unique_markers, academic_keywords,
                                  industry_keywords_sa, industry_keywords_pkg,
                                  mission_keywords_sa, mission_keywords_pkg,
                                  novelty_mission_keywords, ai_systems, ai_markers}}
    \cup UNION {Range(domain_map[i].keywords) : i \in DOMAIN domain_map}
    \cup {domain_markers[i].marker : i \in DOMAIN domain_markers}

\* a keyword as the words it is made of
PartsOf == [k \in AllKeywords |-> Words(k)]

\* the one-word keywords that occur inside a (lower-cased) word
HitsOf == [w \in LowerVocab |-> {k \in AllKeywords : Len(PartsOf[k]) = 1 /\ Contains(k, w)}]

\* kw in text, for a lower-cased text: a one-word keyword lies inside one word; a
\* keyword of several words ends one word, equals the words between and starts the last
InText(kw, text) ==
    LET p == PartsOf[kw]
        n == Len(p)
    IN  IF n = 1
        THEN \E i \in DOMAIN text : kw \in HitsOf[text[i]]
        ELSE \E i \in 1..(Len(text) - n + 1) :
                /\ EndsWith(text[i], p[1])
                /\ \A j \in 2..(n - 1) : text[i + j - 1] = p[j]
                /\ StartsWith(text[i + n - 1], p[n])

\* sum(k in text for k in keywords): the keywords of a list that occur in the text
CountIn(keywords, text) == Cardinality({i \in DOMAIN keywords : InText(keywords[i], text)})

AnyIn(keywords, text) == \E i \in DOMAIN keywords : InText(keywords[i], text)

-----------------------------------------------------------------------------
(* theoretical_agent *)

\* the leading \w+ of a word: what (\w+) captures at its start
RECURSIVE WordPrefix(_)
WordPrefix(s) ==
    IF s # "" /\ Contains(CharAt(s, 1), UpperCase \o LowerCase \o Digits \o "_")
    THEN CharAt(s, 1) \o WordPrefix(SubSeq(s, 2, Len(s)))
    ELSE ""

RECURSIVE FindAllFrom(_, _, _)
\* re.findall(lead + r" (\w+)", text) from word i on; lead is a sequence of words.
\* A match ends the word i with lead[1], equals the next words of lead, and captures
\* the leading \w+ of the word after; the scan goes on behind the capture.
FindAllFrom(lead, text, i) ==
    LET n == Len(lead)
        cap == WordPrefix(text[i + n])
        hit == /\ EndsWith(text[i], lead[1])
               /\ \A j \in 2..n : text[i + j - 1] = lead[j]
               /\ cap # ""
    IN  IF i + n > Len(text) THEN <<>>
        ELSE IF hit
             THEN <<cap>> \o FindAllFrom(lead, text,
                      IF Len(cap) + Len(lead[1]) <= Len(text[i + n]) THEN i + n ELSE i + n + 1)
             ELSE FindAllFrom(lead, text, i + 1)

FindAll(lead, text) == FindAllFrom(lead, text, 1)

\* dep_patterns, each as the words before its (\w+)
dep_patterns == << <<"requires">>, <<"depends", "on">>, <<"assumes">> >>

\* the matches of the three patterns, pattern by pattern (dependencies.extend)
ExtractDependencies(abstract) ==
    Flatten([k \in DOMAIN dep_patterns |-> FindAll(dep_patterns[k], lower(abstract))])

\* IEEE-754: what the double value of
\*   logic*0.3 + foundation*0.2 + clarity*0.2 + breakthrough*0.3
\* differs by from the exact sum where the exact sum is 0.7 or 0.8, the thresholds the
\* routers compare the theoretical score with (0.7000000000000001, 0.7999999999999999)
RoundingOfWeightedSum(l, f, c, b) ==
    CASE <<l, f, c, b>> = <<Pct(90), Pct(80), Pct(90), Pct(30)>> -> 1
      [] <<l, f, c, b>> = <<Pct(95), Pct(60), Pct(80), Pct(45)>> -> 1
      [] <<l, f, c, b>> = <<Pct(95), Pct(70), Pct(70), Pct(45)>> -> 1
      [] <<l, f, c, b>> = <<Pct(80), Pct(100), Pct(90), Pct(60)>> -> -1
      [] <<l, f, c, b>> = <<Pct(85), Pct(70), Pct(90), Pct(75)>> -> -1
      [] <<l, f, c, b>> = <<Pct(85), Pct(90), Pct(70), Pct(75)>> -> -1
      [] OTHER -> 0

\* the weights of the composite theoretical score, in hundredths
W_logic == 30
W_foundation == 20
W_clarity == 20
W_breakthrough == 30

\* the composite with every sub-score weighted alike
WeightedTheoretical_equal_weights(l, f, c, b) == ((l + f + c + b) * 25) \div 100

WeightedTheoretical(l, f, c, b) ==
    (l * W_logic + f * W_foundation + c * W_clarity + b * W_breakthrough) \div 100
        + RoundingOfWeightedSum(l, f, c, b)

TheoreticalIssues(abstract) ==
    (IF InText("contradiction", lower(abstract))
        THEN <<"Potential internal contradiction detected">> ELSE <<>>)
    \o (IF InText("unclear", lower(abstract)) \/ InText("ambiguous", lower(abstract))
        THEN <<"Conceptual ambiguity noted">> ELSE <<>>)

LogicScore(abstract) ==
    Min(One,
        Pct(80)
        + (IF InText("because", lower(abstract)) \/ InText("therefore", lower(abstract))
           THEN Pct(10) ELSE 0)
        + (IF InText("however", lower(abstract)) \/ InText("although", lower(abstract))
           THEN Pct(5) ELSE 0))

FoundationScore(abstract) ==
    Min(One, Pct(50) + Pct(10) * CountIn(foundation_keywords, lower(abstract)))

\* the package leaves the clarity score unclamped
ClarityRaw(abstract, key_findings) ==
    Pct(70)
    + (IF SplitDotLen(abstract) >= 3 THEN Pct(10) ELSE 0)
    + (IF Len(key_findings) >= 2 THEN Pct(10) ELSE 0)

BreakthroughScore(keywords, title, abstract) ==
    Min(One, Pct(30) + Pct(15) * CountIn(keywords, lower(Cat(title, abstract))))

\* list(set(dependencies)): each captured token once, in the order of first capture
\* (Python's set order is the hash order; it is not part of any result compared here)
RECURSIVE Dedup(_)
Dedup(s) ==
    IF s = <<>> THEN <<>>
    ELSE LET front == Dedup(SubSeq(s, 1, Len(s) - 1))
         IN  IF s[Len(s)] \in Range(front) THEN front ELSE Append(front, s[Len(s)])

theoretical_agent_sa(title, abstract, key_findings, methodology) ==
    LET logic_score == LogicScore(abstract)
        foundation_score == FoundationScore(abstract)
        clarity_score == Min(One, ClarityRaw(abstract, key_findings))
        breakthrough_score == BreakthroughScore(breakthrough_keywords_sa, title, abstract)
    IN  [score |-> WeightedTheoretical(logic_score, foundation_score,
                                       clarity_score, breakthrough_score),
         logical_consistency |-> logic_score,
         foundation_strength |-> foundation_score,
         conceptual_clarity |-> clarity_score,
         breakthrough_potential |-> breakthrough_score,
         dependencies |-> Dedup(ExtractDependencies(abstract)),
         issues |-> TheoreticalIssues(abstract),
         notes |-> <<"Evaluated", Len(key_findings), "key findings">>]

theoretical_agent_pkg(title, abstract, key_findings, methodology) ==
    LET logic_score == LogicScore(abstract)
        foundation_score == FoundationScore(abstract)
        clarity_score == ClarityRaw(abstract, key_findings)
        breakthrough_score == BreakthroughScore(breakthrough_keywords_pkg, title, abstract)
    IN  [score |-> WeightedTheoretical(logic_score, foundation_score,
                                       clarity_score, breakthrough_score),
         logical_consistency |-> logic_score,
         foundation_strength |-> foundation_score,
         conceptual_clarity |-> clarity_score,
         breakthrough_potential |-> breakthrough_score,
         dependencies |-> ExtractDependencies(abstract),
         issues |-> TheoreticalIssues(abstract),
         notes |-> <<"Based on abstract + key findings heuristic analysis">>]

-----------------------------------------------------------------------------
(* empirical_agent *)

\* system.title() of a lower-case name: its first letter in upper case
TitleCase(s) ==
    IF s = "" THEN ""
    ELSE LET c == CharAt(s, 1)
         IN  (IF \E i \in 1..Len(LowerCase) : CharAt(LowerCase, i) = c
              THEN CharAt(UpperCase, CHOOSE i \in 1..Len(LowerCase) : CharAt(LowerCase, i) = c)
              ELSE c) \o SubSeq(s, 2, Len(s))

\* the validation type with the tests as an if/elif chain: the first that holds wins
InferValidationType_first_test_wins(abstract) ==
    LET a == lower(abstract)
    IN  IF InText("validated by", a) \/ InText("tested with", a) THEN "experiment"
        ELSE IF AnyIn(ai_markers, a) THEN "ai_system"
        ELSE IF InText("field test", a) \/ InText("real-world", a) THEN "field_test"
        ELSE "theoretical"

\* the standalone infers the validation type; the later tests override the earlier
InferValidationType(abstract) ==
    LET a == lower(abstract)
    IN  IF InText("field test", a) \/ InText("real-world", a) THEN "field_test"
        ELSE IF AnyIn(ai_markers, a) THEN "ai_system"
        ELSE IF InText("validated by", a) \/ InText("tested with", a) THEN "experiment"
        ELSE "theoretical"

ValidatingSystem(title, abstract) ==
    LET text == lower(Cat(title, abstract))
        found == {i \in DOMAIN ai_systems : InText(ai_systems[i], text)}
    IN  IF InText("turing tour", lower(abstract)) THEN "Turing Tour (5 AI systems)"
        ELSE IF found = {} THEN "pending"
        ELSE TitleCase(ai_systems[CHOOSE i \in found : \A j \in found : i <= j])

Reproducible(abstract) ==
    InText("reproducible", lower(abstract)) \/ InText("replicated", lower(abstract))

Contradictions(abstract) ==
    IF InText("inconsistent", lower(abstract))
    THEN <<"Inconsistency noted in abstract">> ELSE <<>>

empirical_agent_sa(title, abstract, methodology, source, now) ==
    LET validation_type == InferValidationType(abstract)
        validating_system == ValidatingSystem(title, abstract)
        support_level == CASE validation_type = "ai_system" -> Pct(70)
                           [] validation_type = "experiment" -> Pct(80)
                           [] validation_type = "field_test" -> Pct(90)
                           [] OTHER -> Pct(50)
    IN  [support_level |-> support_level,
         validation_type |-> validation_type,
         validating_system |-> validating_system,
         timestamp |-> now,
         description |-> <<validation_type, "validation">>
                         \o (IF validating_system # "pending"
                             THEN <<"by", validating_system>> ELSE <<>>),
         reproducible |-> Reproducible(abstract),
         data_location |-> None,
         contradictions |-> Contradictions(abstract)]

empirical_agent_pkg(abstract, validation_type, source, now) ==
    LET a == lower(abstract)
        base_support == Pct(40)
                        + (IF InText("experiment", a) THEN Pct(20) ELSE 0)
                        + (IF InText("field test", a) THEN Pct(20) ELSE 0)
                        + (IF InText("replicated", a) \/ InText("reproduced", a)
                           THEN Pct(20) ELSE 0)
        capped == Min(One, base_support)
        support_level == CASE validation_type = "ai_system" -> Max(capped, Pct(70))
                           [] validation_type = "experiment" -> Max(capped, Pct(80))
                           [] validation_type = "field_test" -> Max(capped, Pct(90))
                           [] OTHER -> capped
    IN  [support_level |-> support_level,
         validation_type |-> validation_type,
         validating_system |-> source,
         timestamp |-> now,
         description |-> <<"Heuristic empirical assessment from abstract">>,
         reproducible |-> Reproducible(abstract),
         data_location |-> None,
         contradictions |-> Contradictions(abstract)]

-----------------------------------------------------------------------------
(* novelty_agent *)

\* the (lower-cased) words a word occurs in as a substring
WordsHolding == [a \in LowerVocab |-> {b \in LowerVocab : Contains(a, b)}]

\* word in other_title, other_title a string of several words
WordInText(word, text) == \E j \in DOMAIN text : text[j] \in WordsHolding[word]

\* the entries of a list at the indices marked by keep, in order
RECURSIVE SelectIdx(_, _, _)
SelectIdx(s, keep, i) ==
    IF i > Len(s) THEN <<>>
    ELSE (IF keep[i] THEN <<s[i]>> ELSE <<>>) \o SelectIdx(s, keep, i + 1)

\* s[-n:], the last n entries
Take_last(s, n) == SubSeq(s, Len(s) - Min(n, Len(s)) + 1, Len(s))

\* s[:n]
Take(s, n) == SubSeq(s, 1, Min(n, Len(s)))

\* findings that carry a uniqueness marker, else the first two findings
UniqueContributions(key_findings) ==
    LET marked == SelectIdx(key_findings,
                            [i \in DOMAIN key_findings |->
                                AnyIn(unique_markers, lower(key_findings[i]))], 1)
    IN  IF marked = <<>> THEN Take(key_findings, 2) ELSE marked

\* packet['packet_id'] raises KeyError on a dict without the key
LacksId(packet) == "packet_id" \notin DOMAIN packet

\* standalone: a prior packet is similar when a word of the title occurs in its title
SimilarPackets_sa(title, existing_packets) ==
    LET Similar(i) ==
            \E k \in DOMAIN title :
                WordInText(lower(title)[k], lower(Get(existing_packets[i], "title", <<>>)))
        ids == [i \in DOMAIN existing_packets |->
                   Get(existing_packets[i], "packet_id", None)]
    IN  SelectIdx(ids, [i \in DOMAIN ids |-> Similar(i)], 1)

novelty_agent_sa(title, abstract, key_findings, existing_packets) ==
    LET text == lower(Cat(title, abstract))
        capped == Min(One, Pct(50) + Pct(10) * CountIn(novelty_keywords, text))
        paradigm_shift == AnyIn(paradigm_indicators, text)
        similar_packets == SimilarPackets_sa(title, existing_packets)
        novelty_score == IF Len(similar_packets) > 3 THEN (capped * 80) \div 100 ELSE capped
    IN  [score |-> novelty_score,
         comparison_to_prior_art |->
             <<"This work">>
             \o (IF similar_packets # <<>>
                 THEN <<"builds on", Len(similar_packets), "related findings">>
                 ELSE <<"appears to open new research territory">>)
             \o (IF paradigm_shift THEN <<"and represents a paradigm shift">> ELSE <<>>),
         unique_contributions |-> UniqueContributions(key_findings),
         paradigm_shift |-> paradigm_shift,
         lineage |-> Take(similar_packets, 5),
         notes |-> <<"Compared against", Len(existing_packets), "existing packets">>]

\* package: a prior packet is similar when the texts share more than 5 whitespace tokens
Similar_pkg(text, packet) ==
    LET other_text == lower(Cat(Get(packet, "title", <<>>), Get(packet, "abstract", <<>>)))
    IN  Cardinality(Range(split(text)) \cap Range(split(other_text))) > 5

SimilarPackets_pkg(text, existing_packets) ==
    LET ids == [i \in DOMAIN existing_packets |->
                   Get(existing_packets[i], "packet_id", None)]
    IN  SelectIdx(ids, [i \in DOMAIN ids |-> Similar_pkg(text, existing_packets[i])], 1)

\* the domains whose marker occurs in the text, each once, in table order
RECURSIVE DomainSpan(_, _)
DomainSpan(text, i) ==
    IF i = 0 THEN <<>>
    ELSE LET before == DomainSpan(text, i - 1)
         IN  IF InText(domain_markers[i].marker, text)
                /\ domain_markers[i].domain \notin Range(before)
             THEN Append(before, domain_markers[i].domain)
             ELSE before

\* the package novelty score before the similarity penalty and the final clamp
NoveltyRaw_pkg(text, research_type) ==
    Pct(50)
    + (IF InText("first", text) \/ InText("novel", text) \/ InText("unique", text)
       THEN Pct(20) ELSE 0)
    + (IF research_type = "breakthrough" THEN Pct(20) ELSE 0)
    + (IF AnyIn(novelty_mission_keywords, text) THEN Pct(5) ELSE 0)
    + (IF Len(DomainSpan(text, Len(domain_markers))) >= 3 THEN Pct(10) ELSE 0)

\* the penalty is applied to the unclamped score and the result clamped
NoveltyFinal_pkg(raw, n_similar) ==
    Min(One, IF n_similar > 3 THEN (raw * 80) \div 100 ELSE raw)

novelty_agent_pkg(title, abstract, research_type, key_findings, existing_packets) ==
    LET text == lower(Cat(title, abstract))
        domains == DomainSpan(text, Len(domain_markers))
        similar_packets == SimilarPackets_pkg(text, existing_packets)
        unique_contributions == UniqueContributions(key_findings)
    IN  [score |-> NoveltyFinal_pkg(NoveltyRaw_pkg(text, research_type), Len(similar_packets)),
         innovation_vector |-> IF Len(domains) >= 3 THEN <<"cross_domain">>
                                                    ELSE <<"incremental">>,
         domain_span |-> IF domains = <<>> THEN <<"unspecified">> ELSE domains,
         paradigm_shift |-> InText("paradigm", text) \/ InText("fundamental", text),
         lineage |-> Take(similar_packets, 5),
         notes |-> <<"This work">>
                   \o (IF similar_packets # <<>>
                       THEN <<"builds on", Len(similar_packets), "related findings">>
                       ELSE <<"appears distinct in the current corpus">>)
                   \o <<"unique contributions", unique_contributions>>]

-----------------------------------------------------------------------------
(* impact_agent *)

Timeline(text) ==
    IF InText("immediate", text) \/ InText("now", text) THEN "immediate"
    ELSE IF InText("future", text) \/ InText("long-term", text) THEN "long_term"
    ELSE "near_term"

\* academic*0.25 + industry*0.25 + mission*0.4 + (len(domains)/5)*0.1
ImpactPotential(academic, industry, mission, n_domains) ==
    (academic * 25) \div 100 + (industry * 25) \div 100 + (mission * 40) \div 100
        + (n_domains * (One \div 5) * 10) \div 100

\* the domains of domain_map with a keyword in the text, in dict order
Domains_sa(text) ==
    SelectIdx([i \in DOMAIN domain_map |-> domain_map[i].domain],
              [i \in DOMAIN domain_map |-> AnyIn(domain_map[i].keywords, text)], 1)

impact_agent_sa(title, abstract, research_type, key_findings) ==
    LET text == lower(Cat(title, abstract))
        academic_score == Min(One, Pct(50) + Pct(8) * CountIn(academic_keywords, text))
        industry_score == Min(One, Pct(40) + Pct(10) * CountIn(industry_keywords_sa, text))
        mission_score == Min(One, Pct(30) + Pct(15) * CountIn(mission_keywords_sa, text))
        domains == Domains_sa(text)
    IN  [potential |-> ImpactPotential(academic_score, industry_score, mission_score,
                                       Len(domains)),
         academic_impact |-> academic_score,
         industry_application |-> industry_score,
         mission_alignment |-> mission_score,
         cross_domain_reach |-> domains,
         timeline_to_impact |-> Timeline(text),
         notes |-> (IF mission_score > Pct(70)
                    THEN <<"Strong mission alignment - direct literacy impact">> ELSE <<>>)
                   \o (IF Len(domains) >= 3 THEN <<"Cross-domain reach", domains>> ELSE <<>>)]

\* IEEE-754: 0.3 + 0.1*3 is 0.6000000000000001, above the 0.6 the package router tests
RoundingOfMission(hits) == IF hits = 3 THEN 1 ELSE 0

\* the package domains: "technology" for a word ending in tech or stack, "education"
\* for the word teacher, classroom or school, each once, in the order first met
Domains_pkg(text) ==
    LET Tech(i) == EndsWith(text[i], "tech") \/ EndsWith(text[i], "stack")
        Edu(i) == text[i] \in {"teacher", "classroom", "school"}
        techs == {i \in DOMAIN text : Tech(i)}
        edus == {i \in DOMAIN text : Edu(i)}
        first(S) == CHOOSE i \in S : \A j \in S : i <= j
    IN  IF techs = {} /\ edus = {} THEN <<>>
        ELSE IF edus = {} THEN <<"technology">>
        ELSE IF techs = {} THEN <<"education">>
        ELSE IF first(techs) <= first(edus) THEN <<"technology", "education">>
        ELSE <<"education", "technology">>

impact_agent_pkg(title, abstract, research_type, key_findings) ==
    LET text == lower(Cat(title, abstract))
        academic_score == Pct(40) + Pct(5) * CountIn(academic_keywords, text)
        industry_score == Pct(30) + Pct(7) * CountIn(industry_keywords_pkg, text)
        mission_hits == CountIn(mission_keywords_pkg, text)
        mission_score == Pct(30) + Pct(10) * mission_hits + RoundingOfMission(mission_hits)
        domains == Domains_pkg(split(text))
    IN  [potential |-> Min(One, ImpactPotential(academic_score, industry_score,
                                                mission_score, Len(domains))),
         academic_impact |-> Min(One, academic_score),
         industry_application |-> Min(One, industry_score),
         mission_alignment |-> Min(One, mission_score),
         cross_domain_reach |-> domains,
         timeline_to_impact |-> Timeline(text),
         notes |-> (IF mission_score > Pct(70)
                    THEN <<"Strong mission alignment - direct literacy impact">> ELSE <<>>)
                   \o (IF research_type = "breakthrough"
                       THEN <<"Marked as breakthrough; prioritize review">> ELSE <<>>)]

-----------------------------------------------------------------------------
(* synthesis_agent *)

\* {word.lower() for word in text.split() if len(word) > 4 and word.isalnum()}
KeywordSet(text) == {LowerWord[text[i]] : i \in {j \in DOMAIN text : IsKeyword[text[j]]}}

OtherText(other_packet) ==
    Cat(Get(other_packet, "title", <<>>), Get(other_packet, "abstract", <<>>))

Overlap(title, abstract, other_packet) ==
    KeywordSet(Cat(title, abstract)) \cap KeywordSet(OtherText(other_packet))

\* the strength without its cap
Strength_unclamped(n) == (n * One) \div 10

\* min(1.0, len(overlap) / 10)
Strength(n) == Min(One, (n * One) \div 10)

ConnectionType_sa(abstract) ==
    IF InText("builds on", lower(abstract)) THEN "builds_on"
    ELSE IF InText("validates", lower(abstract)) THEN "validates"
    ELSE IF InText("extends", lower(abstract)) THEN "extends"
    ELSE "related"

ConnectionType_pkg(other_text) ==
    IF InText("method", lower(other_text)) \/ InText("framework", lower(other_text))
    THEN "builds_on" ELSE "related"

\* connections.sort(key=strength, reverse=True): stable, so equal strengths keep
\* their order; c goes behind every entry at least as strong
InsertByStrength(sorted, c) ==
    LET weaker == {k \in DOMAIN sorted : sorted[k].strength < c.strength}
        at == IF weaker = {} THEN Len(sorted) + 1
              ELSE CHOOSE k \in weaker : \A j \in weaker : k <= j
    IN  SubSeq(sorted, 1, at - 1) \o <<c>> \o SubSeq(sorted, at, Len(sorted))

RECURSIVE SortByStrength(_)
SortByStrength(s) ==
    IF s = <<>> THEN <<>>
    ELSE InsertByStrength(SortByStrength(SubSeq(s, 1, Len(s) - 1)), s[Len(s)])

\* the entry carries the id of the packet under construction
IsSelf(other_packet, packet_id) ==
    ~LacksId(other_packet) /\ other_packet.packet_id = packet_id

\* the connections of the standalone loop, before the sort
Connections_sa(packet_id, title, abstract, existing_packets) ==
    LET Linked(i) == /\ ~IsSelf(existing_packets[i], packet_id)
                     /\ Cardinality(Overlap(title, abstract, existing_packets[i])) >= 2
        conn == [i \in DOMAIN existing_packets |->
                    LET n == Cardinality(Overlap(title, abstract, existing_packets[i]))
                    IN  [related_packet_id |-> Get(existing_packets[i], "packet_id", None),
                         connection_type |-> ConnectionType_sa(abstract),
                         strength |-> Strength(n),
                         description |-> <<"Shares", n, "concepts">>]]
    IN  SelectIdx(conn, [i \in DOMAIN conn |-> Linked(i)], 1)

synthesis_agent_sa(packet_id, title, abstract, key_findings, existing_packets) ==
    Take(SortByStrength(Connections_sa(packet_id, title, abstract, existing_packets)), 5)

\* the package linker without the skip of the entry that carries the packet's own id
synthesis_agent_pkg_no_self_skip(packet_id, title, abstract, key_findings, existing_packets) ==
    LET Linked(i) == Cardinality(Overlap(title, abstract, existing_packets[i])) >= 2
        conn == [i \in DOMAIN existing_packets |->
                    LET n == Cardinality(Overlap(title, abstract, existing_packets[i]))
                    IN  [related_packet_id |-> Get(existing_packets[i], "packet_id", None),
                         connection_type |-> ConnectionType_pkg(OtherText(existing_packets[i])),
                         strength |-> Strength(n),
                         description |-> <<"Shares", n, "key terms with packet",
                                           Get(existing_packets[i], "packet_id", None)>>]]
    IN  SelectIdx(conn, [i \in DOMAIN conn |-> Linked(i)], 1)

synthesis_agent_pkg(packet_id, title, abstract, key_findings, existing_packets) ==
    LET Linked(i) == /\ ~IsSelf(existing_packets[i], packet_id)
                     /\ Cardinality(Overlap(title, abstract, existing_packets[i])) >= 2
        conn == [i \in DOMAIN existing_packets |->
                    LET n == Cardinality(Overlap(title, abstract, existing_packets[i]))
                    IN  [related_packet_id |-> Get(existing_packets[i], "packet_id", None),
                         connection_type |-> ConnectionType_pkg(OtherText(existing_packets[i])),
                         strength |-> Strength(n),
                         description |-> <<"Shares", n, "key terms with packet",
                                           Get(existing_packets[i], "packet_id", None)>>]]
    IN  SelectIdx(conn, [i \in DOMAIN conn |-> Linked(i)], 1)

-----------------------------------------------------------------------------
(* The packet and the routers *)

\* ResearchPacket(...) as process_research_item builds it; the other fields default
ResearchPacket(packet_id, title, research_type, timestamp, source, abstract, key_findings, methodology, tags, theoretical, empirical, novelty, impact, synthesis) ==
    [packet_id |-> packet_id,
     title |-> title,
     research_type |-> research_type,
     timestamp |-> timestamp,
     source |-> source,
     source_location |-> None,
     pictogram_hash |-> "",
     vse_encoding |-> <<>>,
     chrono_marker |-> "",
     theoretical |-> theoretical,
     empirical |-> empirical,
     novelty |-> novelty,
     impact |-> impact,
     synthesis |-> synthesis,
     abstract |-> abstract,
     key_findings |-> key_findings,
     methodology |-> methodology,
     open_questions |-> <<>>,
     routing_decision |-> None,
     priority_score |-> 0,
     tags |-> tags,
     collaborators |-> <<>>,
     status |-> "draft"]

\* what both routers read first; an absent assessment counts as 0 / False
TheoreticalScore(packet) ==
    IF packet.theoretical # None THEN packet.theoretical.score ELSE 0

\* sum(e.support_level) / len(packet.empirical)
EmpiricalScore(packet) ==
    IF packet.empirical # <<>>
    THEN SumSeq([i \in DOMAIN packet.empirical |-> packet.empirical[i].support_level])
            \div Len(packet.empirical)
    ELSE 0

\* an absent novelty assessment counted as a score of 0.5
NoveltyScore_absent_as_half(packet) ==
    IF packet.novelty # None THEN packet.novelty.score ELSE Pct(50)

NoveltyScore(packet) == IF packet.novelty # None THEN packet.novelty.score ELSE 0

ImpactScore(packet) == IF packet.impact # None THEN packet.impact.potential ELSE 0

MissionScore(packet) == IF packet.impact # None THEN packet.impact.mission_alignment ELSE 0

Breakthrough(packet) ==
    IF packet.theoretical # None
    THEN packet.theoretical.breakthrough_potential > Pct(70) ELSE FALSE

ParadigmShift(packet) ==
    IF packet.novelty # None THEN packet.novelty.paradigm_shift ELSE FALSE

HasIssues(packet) ==
    IF packet.theoretical # None THEN Len(packet.theoretical.issues) > 0 ELSE FALSE

\* only the first evidence entry is looked at
HasContradictions_first_entry(packet) ==
    packet.empirical # <<>> /\ Len(packet.empirical[1].contradictions) > 0

HasContradictions(packet) ==
    \E i \in DOMAIN packet.empirical : Len(packet.empirical[i].contradictions) > 0

\* a connection of strength exactly 0.6 counted as strong
StrongConnections_from_06(packet) ==
    Cardinality({i \in DOMAIN packet.synthesis : packet.synthesis[i].strength >= Pct(60)})

StrongConnections(packet) ==
    Cardinality({i \in DOMAIN packet.synthesis : packet.synthesis[i].strength > Pct(60)})

\* the default priority with the sum divided by 3
DefaultPriority_over_three(packet) ==
    Pct(50) + (TheoreticalScore(packet) + NoveltyScore(packet) + ImpactScore(packet)) \div 3

\* 0.5 + (theoretical + novelty + impact) / 6
DefaultPriority(packet) ==
    Pct(50) + (TheoreticalScore(packet) + NoveltyScore(packet) + ImpactScore(packet)) \div 6

Routed(decision, priority, explanation) ==
    [decision |-> decision, priority |-> priority, explanation |-> explanation]

\* rule 1 without the raise of the priority above 0.9
MissionCritical_flat(packet) == Routed("mission_critical", Pct(95), <<"Mission alignment">>)

\* rule 1 of the standalone router: priority = 1.0 if mission_score > 0.9 else 0.95
MissionCritical(packet) ==
    Routed("mission_critical",
           IF MissionScore(packet) > Pct(90) THEN One ELSE Pct(95),
           <<"Mission alignment">>)

\* rule 2 of the standalone router
ReviewNeeded(packet) ==
    Routed("review_needed", Pct(90),
           (IF HasIssues(packet) THEN <<"Theoretical issues detected">> ELSE <<>>)
           \o (IF HasContradictions(packet)
               THEN <<"Empirical contradictions found">> ELSE <<>>))

\* the standalone router with the high-potential rule tested ahead of the mission rule
route_research_sa_rule3_first(packet) ==
    IF \/ (TheoreticalScore(packet) > Pct(80) /\ NoveltyScore(packet) > Pct(70))
       \/ Breakthrough(packet)
       \/ ParadigmShift(packet)
    THEN Routed("active_development", Pct(85), <<"High potential">>)
    ELSE IF MissionScore(packet) > Pct(80)
    THEN MissionCritical(packet)
    ELSE IF HasIssues(packet) \/ HasContradictions(packet)
    THEN ReviewNeeded(packet)
    ELSE IF StrongConnections(packet) >= 3
    THEN Routed("synthesis_needed", Pct(75), <<"strong connections">>)
    ELSE IF EmpiricalScore(packet) > Pct(85) /\ TheoreticalScore(packet) > Pct(70)
    THEN Routed("documentation", Pct(70), <<"Strong validation, ready to publish">>)
    ELSE IF packet.status = "published"
    THEN Routed("archive", Pct(30), <<"Published and integrated">>)
    ELSE Routed("active_development", DefaultPriority(packet), <<"Standard development">>)

\* the standalone router; the explanation is kept without its formatted numbers
route_research_sa(packet) ==
    IF MissionScore(packet) > Pct(80)
    THEN MissionCritical(packet)
    ELSE IF HasIssues(packet) \/ HasContradictions(packet)
    THEN ReviewNeeded(packet)
    ELSE IF \/ (TheoreticalScore(packet) > Pct(80) /\ NoveltyScore(packet) > Pct(70))
            \/ Breakthrough(packet)
            \/ ParadigmShift(packet)
    THEN Routed("active_development", Pct(85),
                <<"High potential">>
                \o (IF Breakthrough(packet) THEN <<"Breakthrough potential">> ELSE <<>>)
                \o (IF ParadigmShift(packet) THEN <<"Paradigm shift">> ELSE <<>>))
    ELSE IF StrongConnections(packet) >= 3
    THEN Routed("synthesis_needed", Pct(75), <<"strong connections">>)
    ELSE IF EmpiricalScore(packet) > Pct(85) /\ TheoreticalScore(packet) > Pct(70)
    THEN Routed("documentation", Pct(70), <<"Strong validation, ready to publish">>)
    ELSE IF packet.status = "published"
    THEN Routed("archive", Pct(30), <<"Published and integrated">>)
    ELSE Routed("active_development", DefaultPriority(packet), <<"Standard development">>)

\* the package router
route_research_pkg(packet) ==
    IF Breakthrough(packet) /\ MissionScore(packet) > Pct(60)
    THEN Routed("active_development", Pct(95),
                <<"High theoretical breakthrough + strong mission alignment">>)
    ELSE IF ParadigmShift(packet) /\ EmpiricalScore(packet) < Pct(50)
    THEN Routed("synthesis_needed", Pct(85),
                <<"Paradigm-shift claim needs synthesis & validation">>)
    ELSE IF TheoreticalScore(packet) < Pct(30) /\ EmpiricalScore(packet) < Pct(30)
    THEN Routed("backlog", Pct(20), <<"Low theoretical and empirical scores">>)
    ELSE IF HasIssues(packet) /\ ImpactScore(packet) < Pct(40)
    THEN Routed("drop", Pct(10), <<"Issues detected with limited impact">>)
    ELSE IF EmpiricalScore(packet) > Pct(85) /\ TheoreticalScore(packet) > Pct(70)
    THEN Routed("documentation", Pct(70), <<"Strong validation, ready to document/publish">>)
    ELSE IF packet.status = "published"
    THEN Routed("archive", Pct(30), <<"Published and integrated; safe to archive">>)
    ELSE Routed("active_development", DefaultPriority(packet), <<"Standard development">>)

-----------------------------------------------------------------------------
(* create_research_glyph and process_research_item *)

type_map == [theory |-> "T", validation |-> "V", application |-> "A", insight |-> "I",
             synthesis |-> "S", question |-> "Q", breakthrough |-> "B"]

HexDigits == "0123456789ABCDEF"

\* hashlib.sha256(title.encode()).hexdigest()[0].upper() of the titles of the model
TitleHash(title) ==
    CASE title = TitleLiteracy -> "6"
      [] title = TitleStudy -> "4"
      [] OTHER -> "E"

\* hex(int(quality * 15))[2:].upper(), quality the mean of the three scores;
\* the package clamps the quality to [0,1] first
QualityHex(theoretical_score, novelty_score, impact_score, clamp) ==
    LET quality == (theoretical_score + novelty_score + impact_score) \div 3
        q == IF clamp THEN Max(0, Min(One, quality)) ELSE quality
    IN  CharAt(HexDigits, (q * 15) \div One + 1)

create_research_glyph(title, research_type, theoretical_score, novelty_score, impact_score, clamp) ==
    Get(type_map, research_type, "R")
        \o QualityHex(theoretical_score, novelty_score, impact_score, clamp)
        \o TitleHash(title)

\* the markers and the encoding set, the glyph left at its default
Stamp_without_glyph(packet, now, clamp) ==
    [packet EXCEPT
        !.chrono_marker = now,
        !.vse_encoding = [intent |-> packet.research_type,
                          affect_positive |-> packet.impact.potential,
                          certainty |-> packet.theoretical.score,
                          temporal_marker |-> now]]

\* the markers, the glyph and the encoding both pipelines set before the routing
Stamp(packet, now, clamp) ==
    [packet EXCEPT
        !.chrono_marker = now,
        !.pictogram_hash =
            create_research_glyph(packet.title, packet.research_type,
                                  packet.theoretical.score, packet.novelty.score,
                                  packet.impact.potential, clamp),
        !.vse_encoding = [intent |-> packet.research_type,
                          affect_positive |-> packet.impact.potential,
                          certainty |-> packet.theoretical.score,
                          temporal_marker |-> now]]

\* the decision stored, the priority left at its default
Store_decision_only(packet, r) == [packet EXCEPT !.routing_decision = r.decision]

\* packet.routing_decision = routing; packet.priority_score = priority
Store(packet, r) ==
    [packet EXCEPT !.routing_decision = r.decision, !.priority_score = r.priority]

\* routing, priority, explanation = route_research(packet), and the two stored
RouteAndStore_sa(packet) == Store(packet, route_research_sa(packet))

RouteAndStore_pkg(packet) == Store(packet, route_research_pkg(packet))

\* the standalone pipeline; uuid is str(uuid.uuid4())[:8], now is datetime.now()
process_research_item_sa(in, existing_packets, uuid, now) ==
    RouteAndStore_sa(Stamp(
            ResearchPacket(uuid, in.title, in.research_type, now, in.source, in.abstract,
               in.key_findings, in.methodology, in.tags,
               theoretical_agent_sa(in.title, in.abstract, in.key_findings, in.methodology),
               <<empirical_agent_sa(in.title, in.abstract, in.methodology, in.source, now)>>,
               novelty_agent_sa(in.title, in.abstract, in.key_findings, existing_packets),
               impact_agent_sa(in.title, in.abstract, in.research_type, in.key_findings),
               synthesis_agent_sa(uuid, in.title, in.abstract, in.key_findings,
                                  existing_packets)),
            now, FALSE))

\* the package pipeline with the validation type left to "theoretical"
process_research_item_pkg_untagged(in, existing_packets, uuid, now) ==
    RouteAndStore_pkg(Stamp(
            ResearchPacket(uuid, in.title, in.research_type, now, in.source, in.abstract,
               in.key_findings, in.methodology, in.tags,
               theoretical_agent_pkg(in.title, in.abstract, in.key_findings, in.methodology),
               <<empirical_agent_pkg(in.abstract, "theoretical", in.source, now)>>,
               novelty_agent_pkg(in.title, in.abstract, in.research_type, in.key_findings,
                                 existing_packets),
               impact_agent_pkg(in.title, in.abstract, in.research_type, in.key_findings),
               synthesis_agent_pkg(uuid, in.title, in.abstract, in.key_findings,
                                   existing_packets)),
            now, TRUE))

\* the package pipeline; the validation type is always "ai_system"
process_research_item_pkg(in, existing_packets, uuid, now) ==
    RouteAndStore_pkg(Stamp(
            ResearchPacket(uuid, in.title, in.research_type, now, in.source, in.abstract,
               in.key_findings, in.methodology, in.tags,
               theoretical_agent_pkg(in.title, in.abstract, in.key_findings, in.methodology),
               <<empirical_agent_pkg(in.abstract, "ai_system", in.source, now)>>,
               novelty_agent_pkg(in.title, in.abstract, in.research_type, in.key_findings,
                                 existing_packets),
               impact_agent_pkg(in.title, in.abstract, in.research_type, in.key_findings),
               synthesis_agent_pkg(uuid, in.title, in.abstract, in.key_findings,
                                   existing_packets)),
            now, TRUE))

\* a run that drops the entry it looked at first
CorpusAfterRun_consumed(existing_packets) ==
    IF existing_packets = <<>> THEN <<>> ELSE Tail(existing_packets)

\* existing_packets when process_research_item returns or raises: the agents
\* iterate over the list and read its entries, and no statement assigns to it
CorpusAfterRun(existing_packets) == existing_packets

\* standalone: synthesis_agent reads other_packet['packet_id'] of every entry, and
\* novelty_agent packet['packet_id'] of every similar one
KeyError_sa(existing_packets) ==
    \E i \in DOMAIN existing_packets : LacksId(existing_packets[i])

\* package: novelty_agent reads packet["packet_id"] of a similar entry and
\* synthesis_agent other_packet["packet_id"] of a linked one
KeyError_pkg(in, existing_packets) ==
    \E i \in DOMAIN existing_packets :
        /\ LacksId(existing_packets[i])
        /\ \/ Similar_pkg(lower(Cat(in.title, in.abstract)), existing_packets[i])
           \/ Cardinality(Overlap(in.title, in.abstract, existing_packets[i])) >= 2

-----------------------------------------------------------------------------
(* The inputs *)

Request(title, abstract, key_findings, research_type, tags) ==
    [title |-> title, abstract |-> abstract, key_findings |-> key_findings,
     research_type |-> research_type, source |-> "manual", methodology |-> <<>>,
     tags |-> tags]

\* title, findings, category and tags of the requests; the abstract varies
Frames == {
    Request(TitleLiteracy, <<>>, FindingsTwo, "theory", <<>>),
    Request(TitleLiteracy, <<>>, FindingsNone, "breakthrough", <<"esper">>),
    Request(TitleStudy, <<>>, FindingsThree, "validation", <<>>) }

Requests == {[f EXCEPT !.abstract = a] : f \in Frames, a \in Abstracts}

\* the requests run against the long corpora
FewRequests == {
    Request(TitleLiteracy, Phrases[5], FindingsNone, "breakthrough", <<>>),
    Request(TitleLiteracy, Phrases[1], FindingsTwo, "theory", <<>>),
    Request(TitleStudy, Phrases[4], FindingsThree, "validation", <<>>),
    Request(TitleStudy, Phrases[6], FindingsThree, "validation", <<>>) }

\* title and abstract of the prior packets a corpus is made of
Priors == <<
    [title |-> TitleLiteracy, abstract |-> Phrases[5]],
    [title |-> TitleStudy, abstract |-> Phrases[6]],
    [title |-> <<"Literacy">>, abstract |-> <<>>] >>

PriorIds == <<"p1", "p2", "p3", "p4", "p5", "p6", "p7", "p8">>

\* the corpora of at most n prior packets, the i-th with the id PriorIds[i]
Corpora(n) ==
    {[i \in DOMAIN ix |-> [packet_id |-> PriorIds[i],
                           title |-> Priors[ix[i]].title,
                           abstract |-> Priors[ix[i]].abstract]] :
        ix \in UNION {[1..k -> DOMAIN Priors] : k \in 0..n}}

\* what uuid4 may return: an id no prior packet has, or the id of the first one
Uuids == {"u1", "p1"}

\* a dict without the keys ks
Without(d, ks) == [k \in DOMAIN d \ ks |-> d[k]]

\* prior packets that lack some of the keys the agents read
MalformedEntries ==
    {Without([packet_id |-> "p2", title |-> Priors[i].title,
              abstract |-> Priors[i].abstract, tags |-> <<>>], ks) :
        i \in {1, 2}, ks \in SUBSET {"packet_id", "title", "abstract"} \ {{}}}

\* corpora of one such entry, alone or next to a complete one
MalformedCorpora ==
    LET complete == [packet_id |-> "p1", title |-> Priors[2].title,
                     abstract |-> Priors[2].abstract]
    IN  UNION {{<<e>>, <<complete, e>>, <<e, complete>>} : e \in MalformedEntries}

Variants == {"standalone", "package"}

-----------------------------------------------------------------------------
(* The pipeline specification: two runs of process_research_item on one request *)

Init ==
    /\ \/ input \in Requests /\ corpus \in Corpora(1)
       \/ input \in FewRequests /\ corpus \in Corpora(MaxCorpus)
    /\ variant \in Variants
    /\ runs = <<>>
    /\ clock = 1
    /\ pkt = None
    /\ routed = None
    /\ args = None
    /\ environ = None
    /\ files = None
    /\ packets = <<>>
    /\ outcome = None

ProcessStandalone ==
    /\ variant = "standalone"
    /\ clock <= 2
    /\ IF KeyError_sa(corpus)
       THEN /\ outcome' = Raised("KeyError")
            /\ runs' = runs
       ELSE \E uuid \in Uuids :
            /\ outcome' = Returned(uuid)
            /\ runs' = Append(runs, process_research_item_sa(input, corpus, uuid, clock))
    /\ corpus' = CorpusAfterRun(corpus)
    /\ clock' = clock + 1
    /\ UNCHANGED <<input, variant, pkt, routed>>
    /\ UNCHANGED <<args, environ, files, packets>>

ProcessPackage ==
    /\ variant = "package"
    /\ clock <= 2
    /\ IF KeyError_pkg(input, corpus)
       THEN /\ outcome' = Raised("KeyError")
            /\ runs' = runs
       ELSE \E uuid \in Uuids :
            /\ outcome' = Returned(uuid)
            /\ runs' = Append(runs, process_research_item_pkg(input, corpus, uuid, clock))
    /\ corpus' = CorpusAfterRun(corpus)
    /\ clock' = clock + 1
    /\ UNCHANGED <<input, variant, pkt, routed>>
    /\ UNCHANGED <<args, environ, files, packets>>

Next == ProcessStandalone \/ ProcessPackage

Spec == Init /\ [][Next]_vars

\* the pipeline on corpora whose entries lack keys
InitCorpus ==
    /\ input \in FewRequests
    /\ corpus \in MalformedCorpora
    /\ variant \in Variants
    /\ runs = <<>>
    /\ clock = 1
    /\ pkt = None
    /\ routed = None
    /\ args = None
    /\ environ = None
    /\ files = None
    /\ packets = <<>>
    /\ outcome = None

SpecCorpus == InitCorpus /\ [][Next]_vars

\* the number of prior packets of the corpora the connections are ranked on
MaxCandidates == 6

\* prior packets that share many, few and no keywords with the record below
RankedPriors == <<
    [title |-> TitleStudy, abstract |-> Phrases[6]],
    [title |-> <<"Literacy">>, abstract |-> SubSeq(Phrases[6], 1, 3)],
    [title |-> <<"Literacy">>, abstract |-> <<>>] >>

RankedCorpora ==
    {[i \in DOMAIN ix |-> [packet_id |-> PriorIds[i],
                           title |-> RankedPriors[ix[i]].title,
                           abstract |-> RankedPriors[ix[i]].abstract]] :
        ix \in UNION {[1..k -> DOMAIN RankedPriors] : k \in 0..MaxCandidates}}

\* the pipeline on corpora with more candidates than the cap, of mixed strengths
InitRank ==
    /\ input = Request(TitleStudy, Phrases[6], FindingsThree, "validation", <<>>)
    /\ corpus \in RankedCorpora
    /\ variant \in Variants
    /\ runs = <<>>
    /\ clock = 1
    /\ pkt = None
    /\ routed = None
    /\ args = None
    /\ environ = None
    /\ files = None
    /\ packets = <<>>
    /\ outcome = None

SpecRank == InitRank /\ [][Next]_vars

\* prior packets for the similarity tests: one that shares short words with the
\* first record below, one that shares a title word only, one that shares words
\* with punctuation with the second record, and one equal to the third record
TokenPriors == <<
    [title |-> TitleLiteracy, abstract |-> SubSeq(Phrases[1], 1, 4)],
    [title |-> <<"Literacy">>, abstract |-> <<>>],
    [title |-> TitleStudy, abstract |-> SubSeq(Phrases[3], 1, 8)],
    [title |-> TitleStudy, abstract |-> Phrases[6]] >>

TokenRequests == {
    Request(TitleLiteracy, Phrases[1], FindingsTwo, "theory", <<>>),
    Request(<<"study">>, Phrases[3], FindingsNone, "validation", <<>>),
    Request(TitleStudy, Phrases[6], FindingsThree, "validation", <<>>) }

\* the number of prior packets of the corpora the similarity is tested on
MaxTokenCorpus == 2

TokenCorpora ==
    {[i \in DOMAIN ix |-> [packet_id |-> PriorIds[i],
                           title |-> TokenPriors[ix[i]].title,
                           abstract |-> TokenPriors[ix[i]].abstract]] :
        ix \in UNION {[1..k -> DOMAIN TokenPriors] : k \in 0..MaxTokenCorpus}}

\* the pipeline on records and corpora that differ in which words they share
InitTokens ==
    /\ input \in TokenRequests
    /\ corpus \in TokenCorpora
    /\ variant \in Variants
    /\ runs = <<>>
    /\ clock = 1
    /\ pkt = None
    /\ routed = None
    /\ args = None
    /\ environ = None
    /\ files = None
    /\ packets = <<>>
    /\ outcome = None

SpecTokens == InitTokens /\ [][Next]_vars

\* the number of dependency phrases of an abstract
MaxDepPhrases == 3

\* the records whose abstracts name dependencies, some of them more than once
DepRequests ==
    {Request(TitleStudy, Flatten([i \in DOMAIN ix |-> DepPhrases[ix[i]]]),
             FindingsTwo, "theory", <<>>) :
        ix \in UNION {[1..n -> DOMAIN DepPhrases] : n \in 0..MaxDepPhrases}}

\* the pipeline on records that name dependencies
InitDeps ==
    /\ input \in DepRequests
    /\ corpus = <<>>
    /\ variant \in Variants
    /\ runs = <<>>
    /\ clock = 1
    /\ pkt = None
    /\ routed = None
    /\ args = None
    /\ environ = None
    /\ files = None
    /\ packets = <<>>
    /\ outcome = None

SpecDeps == InitDeps /\ [][Next]_vars

-----------------------------------------------------------------------------
(* The router specification: route_research on packets whose assessments are   *)
(* drawn around the thresholds the routers test; an assessment may be absent   *)

\* the bounds of the routed packets
MaxEvidence == 2
MaxConnections == 3

TheoreticalAnalysis(score, breakthrough_potential, issues) ==
    [score |-> score, logical_consistency |-> Pct(80), foundation_strength |-> Pct(50),
     conceptual_clarity |-> Pct(70), breakthrough_potential |-> breakthrough_potential,
     dependencies |-> <<>>, issues |-> issues, notes |-> <<>>]

EmpiricalEvidence(support_level, contradictions) ==
    [support_level |-> support_level, validation_type |-> "theoretical",
     validating_system |-> "pending", timestamp |-> 0, description |-> <<>>,
     reproducible |-> FALSE, data_location |-> None, contradictions |-> contradictions]

NoveltyAssessment(score, paradigm_shift) ==
    [score |-> score, comparison_to_prior_art |-> <<>>, unique_contributions |-> <<>>,
     paradigm_shift |-> paradigm_shift, lineage |-> <<>>, notes |-> <<>>]

ImpactAnalysis(potential, mission_alignment) ==
    [potential |-> potential, academic_impact |-> Pct(50), industry_application |-> Pct(40),
     mission_alignment |-> mission_alignment, cross_domain_reach |-> <<>>,
     timeline_to_impact |-> "near_term", notes |-> <<>>]

SynthesisConnection(related_packet_id, strength) ==
    [related_packet_id |-> related_packet_id, connection_type |-> "related",
     strength |-> strength, description |-> <<>>]

GridTheoretical ==
    {None} \cup {TheoreticalAnalysis(s, b, i) :
                    s \in {Pct(20), Pct(70), Pct(70) + 1, Pct(85)},
                    b \in {Pct(70), Pct(75)},
                    i \in {<<>>, <<"Conceptual ambiguity noted">>}}

GridEvidence ==
    {EmpiricalEvidence(Pct(20), <<>>), EmpiricalEvidence(Pct(90), <<>>),
     EmpiricalEvidence(Pct(90), <<"Inconsistency noted in abstract">>)}

GridEmpirical == UNION {[1..k -> GridEvidence] : k \in 0..MaxEvidence}

GridNovelty ==
    {None} \cup {NoveltyAssessment(s, p) : s \in {Pct(50), Pct(75)}, p \in BOOLEAN}

GridImpact ==
    {None} \cup {ImpactAnalysis(p, m) : p \in {Pct(30), Pct(50)},
                                        m \in {Pct(60), Pct(80), Pct(90), One}}

\* k connections of one strength, and the weak ones of the largest number
GridSynthesis ==
    {[i \in 1..k |-> SynthesisConnection(PriorIds[i], Pct(70))] : k \in 0..MaxConnections}
    \cup {[i \in 1..MaxConnections |-> SynthesisConnection(PriorIds[i], Pct(60))]}

GridPackets ==
    {[ResearchPacket("g1", <<>>, "theory", 0, "manual", <<>>, <<>>, <<>>, <<>>, t, e, n, i, s)
        EXCEPT !.status = st] :
        t \in GridTheoretical, e \in GridEmpirical, n \in GridNovelty, i \in GridImpact,
        s \in GridSynthesis, st \in {"draft", "published"}}

InitRoute ==
    /\ pkt \in GridPackets
    /\ routed = None
    /\ variant = "none"
    /\ input = None
    /\ corpus = <<>>
    /\ runs = <<>>
    /\ clock = 1
    /\ args = None
    /\ environ = None
    /\ files = None
    /\ packets = <<>>
    /\ outcome = None

RouteStandalone ==
    /\ routed = None
    /\ routed' = route_research_sa(pkt)
    /\ variant' = "standalone"
    /\ UNCHANGED <<input, corpus, runs, clock, pkt>>
    /\ UNCHANGED cli

RoutePackage ==
    /\ routed = None
    /\ routed' = route_research_pkg(pkt)
    /\ variant' = "package"
    /\ UNCHANGED <<input, corpus, runs, clock, pkt>>
    /\ UNCHANGED cli

NextRoute == RouteStandalone \/ RoutePackage

SpecRoute == InitRoute /\ [][NextRoute]_vars

-----------------------------------------------------------------------------
(* Storage: save_database and load_database *)

\* a Python str where a value may also be None or another object
Str(s) == [str |-> s]

\* bool(value) of a str, None or an object without __bool__ and __len__
Truthy(value) == value # None /\ value # Str("")

\* the values of the ResearchType enumeration; a member is written as its value
ResearchTypeValues ==
    {"theory", "validation", "application", "insight", "synthesis", "question",
     "breakthrough"}

\* a dict where the model must tell it from a dataclass instance
Dict(fields) == [dict |-> fields]

IsDict(x) == "dict" \in DOMAIN x

\* dataclasses.asdict on a nested value: instances become dicts, dicts are copied
AsDictOf(x) == IF x = None \/ IsDict(x) THEN x ELSE Dict(x)

\* dataclasses.asdict(p) of a ResearchPacket
asdict(p) ==
    [p EXCEPT !.theoretical = AsDictOf(@),
              !.empirical = [i \in DOMAIN @ |-> AsDictOf(@[i])],
              !.novelty = AsDictOf(@),
              !.impact = AsDictOf(@),
              !.synthesis = [i \in DOMAIN @ |-> AsDictOf(@[i])]]

\* datetime.isoformat and datetime.fromisoformat: the text of the datetime t is
\* written -t, a value that is no datetime and from which t is read back
isoformat(t) == 0 - t

fromisoformat(s) == 0 - s

\* a path that does not exist, and a file holding a JSON document
NoFile == [exists |-> FALSE]

FileOf(data) == [exists |-> TRUE, data |-> data]

\* p.empirical[i].timestamp where the entry is a dict: AttributeError
SaveRaises(list) ==
    \E k \in DOMAIN list :
        \E i \in DOMAIN list[k].empirical : IsDict(list[k].empirical[i])

\* the dict save_database dumps for one packet
JsonOf(p) ==
    [asdict(p) EXCEPT
        !.timestamp = isoformat(p.timestamp),
        !.empirical = [i \in DOMAIN @ |->
                          Dict([@[i].dict EXCEPT
                                   !.timestamp = isoformat(p.empirical[i].timestamp)])]]

\* the file save_database writes
save_database(list) == FileOf([k \in DOMAIN list |-> JsonOf(list[k])])

\* the packets load_database builds: the nested assessments stay dicts
load_database(file) ==
    IF ~file.exists THEN <<>>
    ELSE [k \in DOMAIN file.data |->
             [file.data[k] EXCEPT !.timestamp = fromisoformat(@)]]

-----------------------------------------------------------------------------
(* config.get_database_path *)

DEFAULT_DATABASE == "research_db.json"

\* the working directory Path("").resolve() gives
Cwd == "/cwd"

\* Path(x).expanduser().resolve() of an absolute path without "~" and links
PathOf(x) ==
    IF "str" \in DOMAIN x THEN Returned(IF x.str = "" THEN Cwd ELSE x.str)
    ELSE Raised("TypeError")

\* the config file: absent, not JSON, or a JSON object
NoConfig == [exists |-> FALSE]

BadConfig == [exists |-> TRUE, valid |-> FALSE]

ConfigOf(json) == [exists |-> TRUE, valid |-> TRUE, json |-> json]

\* the branch on the parsed config file
FromConfig(config, project) ==
    IF Truthy(project) /\ "projects" \in DOMAIN config
    THEN IF project.str \in DOMAIN config.projects
         THEN PathOf(config.projects[project.str])
         ELSE Raised("ValueError")
    ELSE IF "default_database" \in DOMAIN config
         THEN PathOf(config.default_database)
         ELSE Returned(DEFAULT_DATABASE)

get_database_path(cli_path, project, env) ==
    IF Truthy(cli_path) THEN PathOf(cli_path)
    ELSE IF Truthy(env.var) THEN PathOf(env.var)
    ELSE IF env.config.exists
         THEN IF env.config.valid THEN FromConfig(env.config.json, project)
              ELSE Returned(DEFAULT_DATABASE)
         ELSE Returned(DEFAULT_DATABASE)

-----------------------------------------------------------------------------
(* The path specification: get_database_path on every combination of sources *)

PathValues == {None, Str(""), Str("/a.json")}

EnvValues == {None, Str(""), Str("/e.json")}

ProjectValues == {None, Str("x"), Str("y")}

\* the parsed config files; the first is what create_config_template writes
Configs ==
    {[default_database |-> None, projects |-> [example |-> Str("/example.json")]],
     [default_database |-> Str("/d.json"), projects |-> [x |-> Str("/x.json")]],
     [default_database |-> Str("/d.json")],
     [projects |-> [x |-> Str("/x.json")]],
     [comment |-> Str("no database here")]}

ConfigFiles == {NoConfig, BadConfig} \cup {ConfigOf(json) : json \in Configs}

InitPath ==
    /\ args \in [cli_path : PathValues, project : ProjectValues]
    /\ environ \in [var : EnvValues, config : ConfigFiles]
    /\ outcome = None
    /\ input = None
    /\ corpus = <<>>
    /\ variant = "none"
    /\ runs = <<>>
    /\ clock = 1
    /\ pkt = None
    /\ routed = None
    /\ files = None
    /\ packets = <<>>

ResolvePath ==
    /\ outcome = None
    /\ outcome' = get_database_path(args.cli_path, args.project, environ)
    /\ UNCHANGED <<input, corpus, variant, runs, clock, pkt, routed>>
    /\ UNCHANGED <<args, environ, files, packets>>

NextPath == ResolvePath

SpecPath == InitPath /\ [][NextPath]_vars

-----------------------------------------------------------------------------
(* The command line specification: main and cmd_create, on a file system *)

\* the number of commands run
MaxCalls == 2

\* the paths --database and db_path are drawn from
DbPaths == {DEFAULT_DATABASE, "/a.json"}

\* the paths of the file system: those, and the ones environment and config name
FilePaths == DbPaths \cup {"/e.json", "/d.json", "/x.json"}

\* the Namespace of `create`; the record text is fixed, --source, --methodology
\* and --tags are left at their defaults
Namespace(type, database, project) ==
    [command |-> "create", title |-> TitleStudy, abstract |-> Phrases[6],
     findings |-> FindingsThree, type |-> type, source |-> "manual",
     methodology |-> <<>>, tags |-> None, database |-> database, project |-> project]

\* a tag of the enumeration, and one outside it
TypeTags == {"validation", "bogus"}

\* the standalone parser has --database with a default and no --project
Namespaces_sa == {Namespace(t, Str(d), None) : t \in TypeTags, d \in DbPaths}

Namespaces_pkg ==
    {Namespace(t, d, p) : t \in TypeTags, d \in {None, Str("/a.json")},
                          p \in {None, Str("x")}}

\* the arguments cmd_create hands to process_research_item
RequestOf(a) ==
    Request(a.title, a.abstract, a.findings, a.type,
            IF a.tags = None THEN <<>> ELSE a.tags)

\* existing_packets=[asdict(p) for p in packets]
Snapshot(list) == [k \in DOMAIN list |-> asdict(list[k])]

\* packets.append(packet); save_database(packets, path)
AppendAndSave(list, path, packet) ==
    /\ packets' = Append(list, packet)
    /\ runs' = Append(runs, packet)
    /\ IF SaveRaises(Append(list, packet))
       THEN /\ outcome' = Raised("AttributeError")
            /\ files' = files
       ELSE /\ outcome' = Returned(packet.packet_id)
            /\ files' = [files EXCEPT ![path] = save_database(Append(list, packet))]

\* cmd_create taking an unknown tag as "theory" instead of raising
cmd_create_sa_default_tag(a, list) ==
    /\ corpus' = Snapshot(list)
    /\ \E uuid \in Uuids :
         AppendAndSave(list, a.database.str,
             process_research_item_sa(
                 RequestOf([a EXCEPT !.type = IF @ \in ResearchTypeValues THEN @ ELSE "theory"]),
                 Snapshot(list), uuid, clock))

cmd_create_sa(a, list) ==
    IF a.type \notin ResearchTypeValues
    THEN /\ outcome' = Raised("ValueError")
         /\ packets' = list
         /\ UNCHANGED <<files, runs, corpus>>
    ELSE /\ corpus' = Snapshot(list)
         /\ \E uuid \in Uuids :
              AppendAndSave(list, a.database.str,
                  process_research_item_sa(RequestOf(a), Snapshot(list), uuid, clock))

cmd_create_pkg(a, list, db_path) ==
    IF a.type \notin ResearchTypeValues
    THEN /\ outcome' = Raised("ValueError")
         /\ packets' = list
         /\ UNCHANGED <<files, runs, corpus>>
    ELSE /\ corpus' = Snapshot(list)
         /\ \E uuid \in Uuids :
              AppendAndSave(list, db_path,
                  process_research_item_pkg(RequestOf(a), Snapshot(list), uuid, clock))

\* argparse: --type has choices=[t.value for t in ResearchType]
ParseFails(a) == a.type \notin ResearchTypeValues

InitCli ==
    /\ variant \in Variants
    /\ environ \in {[var |-> None, config |-> NoConfig],
                    [var |-> Str("/e.json"),
                     config |-> ConfigOf([default_database |-> Str("/d.json"),
                                          projects |-> [x |-> Str("/x.json")]])]}
    /\ files = [p \in FilePaths |-> NoFile]
    /\ packets = <<>>
    /\ args = None
    /\ outcome = None
    /\ input = None
    /\ corpus = <<>>
    /\ runs = <<>>
    /\ clock = 1
    /\ pkt = None
    /\ routed = None

\* one run of the standalone program with `create`
MainStandalone ==
    /\ variant = "standalone"
    /\ clock <= MaxCalls
    /\ \E a \in Namespaces_sa :
        /\ args' = a
        /\ IF ParseFails(a)
           THEN /\ outcome' = Raised("SystemExit")
                /\ UNCHANGED <<files, packets, runs, corpus>>
           ELSE cmd_create_sa(a, load_database(files[a.database.str]))
    /\ clock' = clock + 1
    /\ UNCHANGED <<input, variant, pkt, routed, environ>>

\* one run of the package program with `create`
MainPackage ==
    /\ variant = "package"
    /\ clock <= MaxCalls
    /\ \E a \in Namespaces_pkg :
        /\ args' = a
        /\ IF ParseFails(a)
           THEN /\ outcome' = Raised("SystemExit")
                /\ UNCHANGED <<files, packets, runs, corpus>>
           ELSE IF "raised" \in DOMAIN get_database_path(a, None, environ)
           THEN /\ outcome' = get_database_path(a, None, environ)
                /\ UNCHANGED <<files, packets, runs, corpus>>
           ELSE cmd_create_pkg(a,
                    load_database(files[get_database_path(a, None, environ).returned]),
                    get_database_path(a, None, environ).returned)
    /\ clock' = clock + 1
    /\ UNCHANGED <<input, variant, pkt, routed, environ>>

\* cmd_create called on the list the process holds
CmdCreateStandalone ==
    /\ variant = "standalone"
    /\ clock <= MaxCalls
    /\ \E a \in Namespaces_sa :
        /\ args' = a
        /\ cmd_create_sa(a, packets)
    /\ clock' = clock + 1
    /\ UNCHANGED <<input, variant, pkt, routed, environ>>

CmdCreatePackage ==
    /\ variant = "package"
    /\ clock <= MaxCalls
    /\ \E a \in Namespaces_pkg, db_path \in DbPaths :
        /\ args' = a
        /\ cmd_create_pkg(a, packets, db_path)
    /\ clock' = clock + 1
    /\ UNCHANGED <<input, variant, pkt, routed, environ>>

NextCli == MainStandalone \/ MainPackage \/ CmdCreateStandalone \/ CmdCreatePackage

SpecCli == InitCli /\ [][NextCli]_vars

-----------------------------------------------------------------------------
(* Properties of the scorers and of the pipeline (Spec) *)

\* C2: every score of the five scorers lies in [0,1]: the theoretical score and its
\* four sub-scores, the empirical support level (for every validation type the
\* package scorer accepts), the novelty score, the impact potential and its three
\* sub-scores, and every connection strength; in the package and in the standalone.
C2_ScoresWithinUnitInterval ==
    LET InUnit(x) == 0 <= x /\ x <= One
    IN  /\ \A i \in DOMAIN runs :
            LET p == runs[i]
            IN  /\ InUnit(p.theoretical.score)
                /\ InUnit(p.theoretical.logical_consistency)
                /\ InUnit(p.theoretical.foundation_strength)
                /\ InUnit(p.theoretical.conceptual_clarity)
                /\ InUnit(p.theoretical.breakthrough_potential)
                /\ \A k \in DOMAIN p.empirical : InUnit(p.empirical[k].support_level)
                /\ InUnit(p.novelty.score)
                /\ InUnit(p.impact.potential)
                /\ InUnit(p.impact.academic_impact)
                /\ InUnit(p.impact.industry_application)
                /\ InUnit(p.impact.mission_alignment)
                /\ \A k \in DOMAIN p.synthesis : InUnit(p.synthesis[k].strength)
        /\ (variant = "package" /\ runs # <<>>) =>
            \A vt \in {"ai_system", "experiment", "field_test", "theoretical", "survey"} :
                InUnit(empirical_agent_pkg(input.abstract, vt, input.source, clock).support_level)

\* a run whose mission alignment and one connection strength sit at the cap 1.0
C2_Witness ==
    \E i \in DOMAIN runs :
        /\ runs[i].impact.mission_alignment = One
        /\ \E k \in DOMAIN runs[i].synthesis : runs[i].synthesis[k].strength = One

\* C3: the theoretical score is 0.3*logical_consistency + 0.2*foundation_strength +
\* 0.2*conceptual_clarity + 0.3*breakthrough_potential of the sub-scores of the same
\* assessment, within one unit of rounding, and the four weights sum to 1.0.
C3_CompositeIsWeightedSum ==
    /\ W_logic + W_foundation + W_clarity + W_breakthrough = 100
    /\ \A i \in DOMAIN runs :
        LET t == runs[i].theoretical
        IN  Abs(100 * t.score - (30 * t.logical_consistency + 20 * t.foundation_strength
                                 + 20 * t.conceptual_clarity + 30 * t.breakthrough_potential))
                <= 100

\* an assessment with four different sub-scores, the breakthrough potential at its cap
C3_Witness ==
    \E i \in DOMAIN runs :
        LET t == runs[i].theoretical
        IN  /\ t.logical_consistency = Pct(95)
            /\ t.foundation_strength = Pct(50)
            /\ t.conceptual_clarity = Pct(80)
            /\ t.breakthrough_potential = One
            /\ t.score = Pct(8450) \div 100

\* C4: two runs of process_research_item on the same arguments and corpus yield the
\* same theoretical, empirical, novelty and impact scores, the same connections
\* (targets and strengths), the same routing decision and the same priority.
C4_RerunsAgree ==
    Len(runs) = 2 =>
        LET a == runs[1]
            b == runs[2]
            Links(p) == [k \in DOMAIN p.synthesis |->
                            <<p.synthesis[k].related_packet_id, p.synthesis[k].strength>>]
        IN  /\ a.theoretical.score = b.theoretical.score
            /\ a.empirical[1].support_level = b.empirical[1].support_level
            /\ a.novelty.score = b.novelty.score
            /\ a.impact.potential = b.impact.potential
            /\ Links(a) = Links(b)
            /\ a.routing_decision = b.routing_decision
            /\ a.priority_score = b.priority_score

\* C5: the decision and the priority stored on a packet are what route_research
\* returns for it, and route_research returns the same for every packet that differs
\* from it only in id, title, abstract, findings, tags, timestamps and glyph.
C5_RoutingIsDerived ==
    \A i \in DOMAIN runs :
        LET p == runs[i]
            route(q) == IF variant = "standalone" THEN route_research_sa(q)
                                                  ELSE route_research_pkg(q)
            others == <<
                [p EXCEPT !.packet_id = "other"],
                [p EXCEPT !.title = <<"Literacy">>, !.abstract = Phrases[2]],
                [p EXCEPT !.key_findings = FindingsThree, !.tags = <<"urgent", "mission">>],
                [p EXCEPT !.timestamp = 0, !.chrono_marker = 0, !.pictogram_hash = "RFF"],
                [p EXCEPT !.packet_id = "other", !.title = <<>>, !.abstract = <<>>,
                          !.key_findings = <<>>, !.tags = <<>>, !.timestamp = 0,
                          !.chrono_marker = 0, !.pictogram_hash = ""] >>
        IN  /\ p.routing_decision = route(p).decision
            /\ p.priority_score = route(p).priority
            /\ \A k \in DOMAIN others :
                /\ route(others[k]).decision = p.routing_decision
                /\ route(others[k]).priority = p.priority_score

\* two runs with different ids and timestamps, both routed to documentation at 0.7
C5_Witness ==
    /\ Len(runs) = 2
    /\ runs[1].packet_id # runs[2].packet_id
    /\ runs[1].timestamp # runs[2].timestamp
    /\ runs[2].routing_decision = "documentation"
    /\ runs[2].priority_score = Pct(70)

C7_ConnectionsNeedTwoSharedTokens ==
    \A i \in DOMAIN runs :
        LET p == runs[i]
            Shared(j) == Cardinality(Overlap(input.title, input.abstract, corpus[j]))
        IN  /\ \A k \in DOMAIN p.synthesis :
                /\ p.synthesis[k].related_packet_id # p.packet_id
                /\ \E j \in DOMAIN corpus :
                    /\ corpus[j].packet_id = p.synthesis[k].related_packet_id
                    /\ Shared(j) >= 2
            /\ \A j \in DOMAIN corpus :
                Shared(j) = 1 =>
                    \A k \in DOMAIN p.synthesis :
                        p.synthesis[k].related_packet_id # corpus[j].packet_id

\* the packet got the id of the first corpus entry, which shares two tokens or more
\* with it, and the only other entry shares exactly one: no connection at all
C7_Witness ==
    \E i \in DOMAIN runs :
        /\ Len(corpus) = 2
        /\ runs[i].packet_id = corpus[1].packet_id
        /\ Cardinality(Overlap(input.title, input.abstract, corpus[1])) >= 2
        /\ Cardinality(Overlap(input.title, input.abstract, corpus[2])) = 1
        /\ runs[i].synthesis = <<>>

\* C8: with more than 3 similar corpus records the novelty score is 0.8 times the
\* pre-penalty score capped at 1.0, and with 3 or fewer it is the capped pre-penalty
\* score.
C8_PenaltyOnCappedScore ==
    \A i \in DOMAIN runs :
        LET text == lower(Cat(input.title, input.abstract))
            pre == IF variant = "standalone"
                   THEN Pct(50) + Pct(10) * CountIn(novelty_keywords, text)
                   ELSE NoveltyRaw_pkg(text, input.research_type)
            similar == IF variant = "standalone"
                       THEN SimilarPackets_sa(input.title, corpus)
                       ELSE SimilarPackets_pkg(text, corpus)
        IN  runs[i].novelty.score = IF Len(similar) > 3 THEN (Min(One, pre) * 80) \div 100
                                                        ELSE Min(One, pre)

\* C14: every packet process_research_item returns is fully populated: theoretical,
\* novelty and impact assessments present, exactly one evidence entry, a list of
\* connections, the glyph and the encoding set, a routing decision present and a
\* priority in [0,1].
C14_FullyPopulated ==
    \A i \in DOMAIN runs :
        LET p == runs[i]
        IN  /\ p.theoretical # None /\ "score" \in DOMAIN p.theoretical
            /\ p.novelty # None /\ "score" \in DOMAIN p.novelty
            /\ p.impact # None /\ "potential" \in DOMAIN p.impact
            /\ Len(p.empirical) = 1
            /\ DOMAIN p.synthesis = 1..Len(p.synthesis)
            /\ \A k \in DOMAIN p.synthesis : "related_packet_id" \in DOMAIN p.synthesis[k]
            /\ Len(p.pictogram_hash) = 3
            /\ DOMAIN p.vse_encoding =
                  {"intent", "affect_positive", "certainty", "temporal_marker"}
            /\ p.routing_decision \in
                  {"mission_critical", "review_needed", "active_development",
                   "synthesis_needed", "documentation", "archive", "backlog", "drop"}
            /\ 0 <= p.priority_score /\ p.priority_score <= One

\* a packet returned for an empty abstract and an empty corpus: no connection, one
\* evidence entry, glyph and decision set
C14_Witness ==
    \E i \in DOMAIN runs :
        /\ input.abstract = <<>>
        /\ corpus = <<>>
        /\ runs[i].synthesis = <<>>
        /\ Len(runs[i].empirical) = 1
        /\ Len(runs[i].pictogram_hash) = 3
        /\ runs[i].routing_decision = "active_development"

\* C17: a run of process_research_item leaves the corpus it was handed as it was
\* (same length, same entries in the same order, every field the same), writes no
\* storage, and hands back exactly one new packet, which it does not put into the
\* corpus.
C17_CorpusUntouched ==
    [][clock' # clock =>
          /\ corpus' = corpus
          /\ files' = files
          /\ packets' = packets
          /\ Len(runs') = Len(runs) + 1
          /\ SubSeq(runs', 1, Len(runs)) = runs
          /\ runs'[Len(runs')].packet_id = outcome'.returned]_vars

\* two runs read a corpus of MaxCorpus entries, linked the record to its entries and
\* counted similar ones; the corpus still has its MaxCorpus entries
C17_Witness ==
    /\ Len(runs) = 2
    /\ Len(corpus) = MaxCorpus
    /\ runs[1].synthesis # <<>>
    /\ runs[1].novelty.lineage # <<>>
    /\ runs[2].synthesis # <<>>

-----------------------------------------------------------------------------
(* Properties of the pipeline on malformed corpora (SpecCorpus) *)

\* C16: on every corpus, entries that lack the id, the title or the abstract
\* included, process_research_item completes and returns a packet.
C16_TotalOverMalformedCorpora == outcome # None => "returned" \in DOMAIN outcome

\* the entry with its missing title and abstract as empty strings
WithEmptyText(e) ==
    [packet_id |-> e.packet_id, title |-> Get(e, "title", <<>>),
     abstract |-> Get(e, "abstract", <<>>)]

\* when every entry carries its id, the run returns the packet it returns on the
\* corpus whose missing titles and abstracts are empty strings
C16_MissingTextReadsAsEmpty ==
    (\A j \in DOMAIN corpus : ~LacksId(corpus[j])) =>
        /\ outcome # None => "returned" \in DOMAIN outcome
        /\ \A i \in DOMAIN runs :
              LET filled == [j \in DOMAIN corpus |-> WithEmptyText(corpus[j])]
              IN  runs[i] = IF variant = "standalone"
                            THEN process_research_item_sa(input, filled, runs[i].packet_id,
                                                          runs[i].timestamp)
                            ELSE process_research_item_pkg(input, filled, runs[i].packet_id,
                                                           runs[i].timestamp)

\* a run on a corpus whose only entry lacks title and abstract returned a packet
C16_WitnessMissingText ==
    /\ Len(corpus) = 1
    /\ DOMAIN corpus[1] = {"packet_id", "tags"}
    /\ Len(runs) = 1

\* the package ran on a corpus whose entry without id shares no text with the
\* record, and returned a packet
C16_WitnessUnreadId ==
    /\ variant = "package"
    /\ \E j \in DOMAIN corpus : LacksId(corpus[j])
    /\ Len(runs) = 1

-----------------------------------------------------------------------------
(* Properties of the standalone router (SpecRoute) *)

\* C1: the standalone route_research returns the outcome of the first of its seven
\* rules, taken in the order 1..7, whose condition holds; a packet with mission
\* alignment above 0.8 and breakthrough potential above 0.7 is routed
\* MISSION_CRITICAL, never ACTIVE_DEVELOPMENT.
C1_FirstMatchingRuleWins ==
    (variant = "standalone" /\ routed # None) =>
        LET rules == <<
                [holds |-> MissionScore(pkt) > Pct(80),
                 decision |-> "mission_critical",
                 priority |-> IF MissionScore(pkt) > Pct(90) THEN One ELSE Pct(95)],
                [holds |-> HasIssues(pkt) \/ HasContradictions(pkt),
                 decision |-> "review_needed", priority |-> Pct(90)],
                [holds |-> \/ (TheoreticalScore(pkt) > Pct(80) /\ NoveltyScore(pkt) > Pct(70))
                           \/ Breakthrough(pkt)
                           \/ ParadigmShift(pkt),
                 decision |-> "active_development", priority |-> Pct(85)],
                [holds |-> StrongConnections(pkt) >= 3,
                 decision |-> "synthesis_needed", priority |-> Pct(75)],
                [holds |-> EmpiricalScore(pkt) > Pct(85) /\ TheoreticalScore(pkt) > Pct(70),
                 decision |-> "documentation", priority |-> Pct(70)],
                [holds |-> pkt.status = "published",
                 decision |-> "archive", priority |-> Pct(30)],
                [holds |-> TRUE,
                 decision |-> "active_development", priority |-> DefaultPriority(pkt)] >>
            first == CHOOSE i \in DOMAIN rules :
                        rules[i].holds /\ \A j \in 1..(i - 1) : ~rules[j].holds
        IN  /\ routed.decision = rules[first].decision
            /\ routed.priority = rules[first].priority
            /\ (rules[1].holds /\ rules[3].holds) => routed.decision = "mission_critical"

\* a packet that satisfies rule 1 and rule 3 has been routed by the standalone router
C1_Witness ==
    /\ variant = "standalone"
    /\ routed # None
    /\ pkt.impact # None
    /\ pkt.impact.mission_alignment > Pct(80)
    /\ pkt.theoretical # None
    /\ pkt.theoretical.breakthrough_potential > Pct(70)
    /\ routed.decision = "mission_critical"

\* C9: a packet with mission alignment above 0.8 is routed MISSION_CRITICAL by the
\* standalone router, with priority 1.0 above 0.9 and 0.95 otherwise, whatever its
\* issues, contradictions, connections and status.
C9_MissionCriticalPriority ==
    (/\ variant = "standalone"
     /\ routed # None
     /\ pkt.impact # None
     /\ pkt.impact.mission_alignment > Pct(80)) =>
        /\ routed.decision = "mission_critical"
        /\ routed.priority = IF pkt.impact.mission_alignment > Pct(90) THEN One ELSE Pct(95)

\* mission alignment 0.9 on a published packet with issues, a contradiction and three
\* strong connections: routed at priority 0.95
C9_Witness ==
    /\ variant = "standalone"
    /\ routed # None
    /\ pkt.impact # None
    /\ pkt.impact.mission_alignment = Pct(90)
    /\ pkt.theoretical # None
    /\ pkt.theoretical.issues # <<>>
    /\ \E i \in DOMAIN pkt.empirical : pkt.empirical[i].contradictions # <<>>
    /\ Cardinality({i \in DOMAIN pkt.synthesis : pkt.synthesis[i].strength > Pct(60)}) >= 3
    /\ pkt.status = "published"
    /\ routed.priority = Pct(95)

\* C10: a packet with mission alignment at most 0.8 that has a theoretical issue or an
\* evidence entry with a contradiction is routed REVIEW_NEEDED with priority 0.9 by the
\* standalone router, even with breakthrough potential above 0.7, the paradigm-shift
\* flag set, or the status published.
C10_ReviewNeeded ==
    (/\ variant = "standalone"
     /\ routed # None
     /\ (pkt.impact = None \/ pkt.impact.mission_alignment <= Pct(80))
     /\ \/ (pkt.theoretical # None /\ pkt.theoretical.issues # <<>>)
        \/ \E i \in DOMAIN pkt.empirical : pkt.empirical[i].contradictions # <<>>) =>
        /\ routed.decision = "review_needed"
        /\ routed.priority = Pct(90)

\* a published paradigm-shift packet with breakthrough potential above 0.7, without
\* issues, whose only contradiction is in its second evidence entry: sent to review
C10_Witness ==
    /\ variant = "standalone"
    /\ routed # None
    /\ pkt.impact # None
    /\ pkt.impact.mission_alignment = Pct(80)
    /\ pkt.theoretical # None
    /\ pkt.theoretical.issues = <<>>
    /\ pkt.theoretical.breakthrough_potential > Pct(70)
    /\ pkt.novelty # None
    /\ pkt.novelty.paradigm_shift
    /\ pkt.status = "published"
    /\ Len(pkt.empirical) = 2
    /\ pkt.empirical[1].contradictions = <<>>
    /\ pkt.empirical[2].contradictions # <<>>
    /\ routed.decision = "review_needed"

\* the raw fields of the routed packet that the rules of the routers read
C11_Quiet ==
    /\ (pkt.impact = None \/ pkt.impact.mission_alignment <= Pct(80))
    /\ (pkt.theoretical = None \/ pkt.theoretical.issues = <<>>)
    /\ \A i \in DOMAIN pkt.empirical : pkt.empirical[i].contradictions = <<>>
    /\ ~(/\ pkt.theoretical # None /\ pkt.theoretical.score > Pct(80)
         /\ pkt.novelty # None /\ pkt.novelty.score > Pct(70))
    /\ (pkt.theoretical = None \/ pkt.theoretical.breakthrough_potential <= Pct(70))
    /\ (pkt.novelty = None \/ ~pkt.novelty.paradigm_shift)

\* C11: for a packet that matches none of the rules 1-3, the standalone router returns
\* SYNTHESIS_NEEDED with priority 0.75 exactly when at least 3 of its connections have
\* a strength strictly above 0.6; a connection of strength 0.6 does not count.
C11_SynthesisNeeded ==
    (variant = "standalone" /\ routed # None /\ C11_Quiet) =>
        LET strong == Cardinality({i \in DOMAIN pkt.synthesis :
                                      pkt.synthesis[i].strength > Pct(60)})
        IN  /\ (routed.decision = "synthesis_needed") <=> (strong >= 3)
            /\ (routed.decision = "synthesis_needed") => routed.priority = Pct(75)

\* three connections of strength 0.7 on a quiet packet: sent to synthesis at 0.75
C11_Witness ==
    /\ variant = "standalone"
    /\ routed # None
    /\ C11_Quiet
    /\ Len(pkt.synthesis) = 3
    /\ \A i \in DOMAIN pkt.synthesis : pkt.synthesis[i].strength = Pct(70)
    /\ routed.decision = "synthesis_needed"
    /\ routed.priority = Pct(75)

\* three connections of strength exactly 0.6 on a quiet packet: not sent to synthesis
C11_WitnessAtThreshold ==
    /\ variant = "standalone"
    /\ routed # None
    /\ C11_Quiet
    /\ Len(pkt.synthesis) = 3
    /\ \A i \in DOMAIN pkt.synthesis : pkt.synthesis[i].strength = Pct(60)
    /\ routed.decision # "synthesis_needed"

\* the packet matches none of the six rules the router of its variant tests before
\* the default, read from the raw fields
C12_NoEarlierRule ==
    LET t == IF pkt.theoretical # None THEN pkt.theoretical.score ELSE 0
        b == pkt.theoretical # None /\ pkt.theoretical.breakthrough_potential > Pct(70)
        issues == pkt.theoretical # None /\ pkt.theoretical.issues # <<>>
        e == IF pkt.empirical # <<>>
             THEN SumSeq([k \in DOMAIN pkt.empirical |-> pkt.empirical[k].support_level])
                    \div Len(pkt.empirical)
             ELSE 0
        n == IF pkt.novelty # None THEN pkt.novelty.score ELSE 0
        shift == pkt.novelty # None /\ pkt.novelty.paradigm_shift
        i == IF pkt.impact # None THEN pkt.impact.potential ELSE 0
        m == IF pkt.impact # None THEN pkt.impact.mission_alignment ELSE 0
        strong == Cardinality({k \in DOMAIN pkt.synthesis :
                                  pkt.synthesis[k].strength > Pct(60)})
    IN  /\ ~(e > Pct(85) /\ t > Pct(70))
        /\ pkt.status # "published"
        /\ IF variant = "standalone"
           THEN C11_Quiet /\ strong < 3
           ELSE /\ ~(b /\ m > Pct(60))
                /\ ~(shift /\ e < Pct(50))
                /\ ~(t < Pct(30) /\ e < Pct(30))
                /\ ~(issues /\ i < Pct(40))

\* C12: a packet that matches none of the earlier rules is routed ACTIVE_DEVELOPMENT
\* with priority 0.5 + (theoretical + novelty + impact)/6, in both routers, and every
\* priority a router returns lies in [0,1]; with the three scores at 1.0 the default
\* priority is 1.0 (package), and 0.95 with the novelty at 0.7 (standalone).
C12_DefaultPriority ==
    LET sum == (IF pkt.theoretical # None THEN pkt.theoretical.score ELSE 0)
               + (IF pkt.novelty # None THEN pkt.novelty.score ELSE 0)
               + (IF pkt.impact # None THEN pkt.impact.potential ELSE 0)
        Top(novelty) ==
            ResearchPacket("g1", <<>>, "theory", 0, "manual", <<>>, <<>>, <<>>, <<>>,
                           TheoreticalAnalysis(One, Pct(70), <<>>), <<>>,
                           NoveltyAssessment(novelty, FALSE), ImpactAnalysis(One, Pct(60)),
                           <<>>)
    IN  /\ routed # None =>
            /\ 0 <= routed.priority /\ routed.priority <= One
            /\ C12_NoEarlierRule =>
                /\ routed.decision = "active_development"
                /\ 6 * (routed.priority - Pct(50)) <= sum
                /\ 6 * (routed.priority - Pct(50)) > sum - 6
        /\ route_research_pkg(Top(One)) =
              Routed("active_development", One, <<"Standard development">>)
        /\ route_research_sa(Top(Pct(70))) =
              Routed("active_development", Pct(95), <<"Standard development">>)

\* the standalone router took the default for scores 0.7, 0.75 and 0.5: priority 0.825
C12_Witness ==
    /\ variant = "standalone"
    /\ routed # None
    /\ C12_NoEarlierRule
    /\ pkt.theoretical # None /\ pkt.theoretical.score = Pct(70)
    /\ pkt.novelty # None /\ pkt.novelty.score = Pct(75)
    /\ pkt.impact # None /\ pkt.impact.potential = Pct(50)
    /\ routed.decision = "active_development"
    /\ routed.priority = Pct(8250) \div 100

\* the routed packet has its theoretical and impact assessments, no novelty
\* assessment, no evidence and no connection
C13_Sparse ==
    /\ pkt.theoretical # None
    /\ pkt.impact # None
    /\ pkt.novelty = None
    /\ pkt.empirical = <<>>
    /\ pkt.synthesis = <<>>

\* C13: for a packet with theoretical and impact assessments but no novelty, no
\* evidence and no connection, both routers return a (decision, priority, explanation)
\* result, the one they return for the same packet with a novelty assessment of score 0
\* without paradigm shift, one evidence entry of support 0 without contradictions and
\* one connection that is not strong; where no rule matches, the priority is
\* 0.5 + (theoretical + 0 + impact)/6.
C13_AbsentAssessments ==
    (routed # None /\ C13_Sparse) =>
        LET zeroed == [pkt EXCEPT !.novelty = NoveltyAssessment(0, FALSE),
                                  !.empirical = <<EmpiricalEvidence(0, <<>>)>>,
                                  !.synthesis = <<SynthesisConnection("p1", Pct(60))>>]
            sum == pkt.theoretical.score + pkt.impact.potential
        IN  /\ DOMAIN routed = {"decision", "priority", "explanation"}
            /\ routed = IF variant = "standalone" THEN route_research_sa(zeroed)
                                                  ELSE route_research_pkg(zeroed)
            /\ routed.decision # "synthesis_needed"
            /\ routed.decision # "documentation"
            /\ C12_NoEarlierRule =>
                /\ routed.decision = "active_development"
                /\ 6 * (routed.priority - Pct(50)) <= sum
                /\ 6 * (routed.priority - Pct(50)) > sum - 6

\* such a packet with scores 0.7 and 0.5 went through the package router: priority 0.7
C13_Witness ==
    /\ variant = "package"
    /\ routed # None
    /\ C13_Sparse
    /\ pkt.theoretical.score = Pct(70)
    /\ pkt.impact.potential = Pct(50)
    /\ routed = Routed("active_development", Pct(70), <<"Standard development">>)


-----------------------------------------------------------------------------
(* Properties of the command line (SpecCli) *)

\* C15: a category tag outside the seven values of the enumeration ends the
\* command with an error before the pipeline is entered: process_research_item
\* returns no packet (no assessment is computed), the list of packets is not
\* appended to and no database file is written.
C15_InvalidTagRejected ==
    [][(clock' # clock /\ args'.type \notin ResearchTypeValues) =>
          /\ "raised" \in DOMAIN outcome'
          /\ outcome'.raised \in {"ValueError", "SystemExit"}
          /\ runs' = runs
          /\ corpus' = corpus
          /\ packets' = packets
          /\ files' = files]_vars

\* after one record was created and saved, cmd_create is called with the tag
\* "bogus": ValueError, and list and file still hold the one packet
C15_Witness ==
    /\ outcome = Raised("ValueError")
    /\ args # None
    /\ args.type = "bogus"
    /\ Len(runs) = 1
    /\ Len(packets) = 1
    /\ \E p \in DbPaths : files[p].exists /\ Len(files[p].data) = 1

-----------------------------------------------------------------------------
(* Properties of get_database_path (SpecPath) *)

\* what the config file yields: the entry of the named project, else
\* default_database; None when the file is absent or unreadable, or holds neither
C18_FromConfig ==
    IF ~environ.config.exists THEN None
    ELSE IF ~environ.config.valid THEN None
    ELSE LET config == environ.config.json
             named == /\ Truthy(args.project)
                      /\ "projects" \in DOMAIN config
                      /\ args.project.str \in DOMAIN config.projects
         IN  IF named /\ config.projects[args.project.str] # None
             THEN config.projects[args.project.str]
             ELSE IF "default_database" \in DOMAIN config
             THEN config.default_database
             ELSE None

\* the first level of the cascade that yields a path
C18_Expected ==
    IF Truthy(args.cli_path) THEN Returned(args.cli_path.str)
    ELSE IF Truthy(environ.var) THEN Returned(environ.var.str)
    ELSE IF C18_FromConfig # None THEN Returned(C18_FromConfig.str)
    ELSE Returned(DEFAULT_DATABASE)

\* C18: get_database_path returns the path of the first level that yields one:
\* the CLI path, else ESPER_THESIS_DB, else the config file (the named project's
\* entry, else default_database), else research_db.json.
C18_Cascade == outcome # None => outcome = C18_Expected

\* whenever get_database_path returns, it returns the path of the cascade
C18_CascadeWhenReturned ==
    (outcome # None /\ "returned" \in DOMAIN outcome) => outcome = C18_Expected

\* it raises exactly when the config file is reached and either names no such
\* project (ValueError) or holds null where the path is read (TypeError)
C18_RaisesAtConfig ==
    (outcome # None /\ "raised" \in DOMAIN outcome) =>
        /\ ~Truthy(args.cli_path)
        /\ ~Truthy(environ.var)
        /\ environ.config.exists
        /\ environ.config.valid
        /\ LET config == environ.config.json
           IN  IF Truthy(args.project) /\ "projects" \in DOMAIN config
               THEN /\ args.project.str \notin DOMAIN config.projects
                    /\ outcome = Raised("ValueError")
               ELSE /\ "default_database" \in DOMAIN config
                    /\ config.default_database = None
                    /\ outcome = Raised("TypeError")

\* the config file create_config_template writes, no CLI path, no environment
\* variable, no project: TypeError instead of research_db.json
C18_WitnessTemplate ==
    /\ args = [cli_path |-> None, project |-> None]
    /\ environ.var = None
    /\ environ.config =
           ConfigOf([default_database |-> None,
                     projects |-> [example |-> Str("/example.json")]])
    /\ outcome = Raised("TypeError")

\* the environment variable is set and the CLI path is given: the CLI path
C18_WitnessCliWins ==
    /\ args.cli_path = Str("/a.json")
    /\ environ.var = Str("/e.json")
    /\ outcome = Returned("/a.json")

\* the ids of a list of packets
C19_Ids(list) == [k \in DOMAIN list |-> list[k].packet_id]

\* the path the package command line names: --database, else the entry of
\* --project in the config file
C19_Named(a) ==
    IF Truthy(a.database) THEN a.database.str
    ELSE environ.config.json.projects[a.project.str].str

\* --database is given, or --project is and the config file has its entry
C19_Names(a) ==
    \/ Truthy(a.database)
    \/ /\ Truthy(a.project)
       /\ environ.config.exists
       /\ a.project.str \in DOMAIN environ.config.json.projects

\* C19: a run of the package `create` with --database loads the packets from that
\* path and saves to it, whatever the environment variable and the config file
\* hold; with --project and no --database it uses the project's path of the
\* config file.
C19_DatabaseOptionUsed ==
    [][(MainPackage /\ ~ParseFails(args') /\ C19_Names(args')) =>
          /\ outcome' # Raised("TypeError")
          /\ C19_Ids(SubSeq(packets', 1, Len(packets') - 1)) =
                 C19_Ids(load_database(files[C19_Named(args')]))
          /\ "returned" \in DOMAIN outcome' =>
                 /\ files'[C19_Named(args')].exists
                 /\ C19_Ids(files'[C19_Named(args')].data) = C19_Ids(packets')]_vars

\* the package main ran `create --database /a.json` with a valid tag and ended in
\* TypeError, with nothing loaded and no file written
C19_Witness ==
    /\ variant = "package"
    /\ args # None
    /\ args.database = Str("/a.json")
    /\ args.type \in ResearchTypeValues
    /\ outcome = Raised("TypeError")
    /\ packets = <<>>
    /\ \A p \in FilePaths : ~files[p].exists

-----------------------------------------------------------------------------
(* Properties of the ranking of the connections (SpecRank) *)

\* the corpus entries a connection is due to: not the packet itself, and two
\* shared keywords or more
C20_Candidates(p) ==
    {j \in DOMAIN corpus :
        /\ corpus[j].packet_id # p.packet_id
        /\ Cardinality(Overlap(input.title, input.abstract, corpus[j])) >= 2}

\* at most 5 connections, by non-increasing strength, and no candidate left out
\* is stronger than a connection kept
C20_Ranked(p) ==
    /\ Len(p.synthesis) <= 5
    /\ \A k \in DOMAIN p.synthesis : \A l \in DOMAIN p.synthesis :
           k < l => p.synthesis[k].strength >= p.synthesis[l].strength
    /\ \A j \in C20_Candidates(p) :
           (\A k \in DOMAIN p.synthesis :
                p.synthesis[k].related_packet_id # corpus[j].packet_id) =>
               \A k \in DOMAIN p.synthesis :
                   Strength(Cardinality(Overlap(input.title, input.abstract, corpus[j])))
                       <= p.synthesis[k].strength

\* C20: the connections attached to a packet are at most 5, ordered by
\* non-increasing strength, and every candidate left out is no stronger than every
\* connection kept, in the package pipeline as in the standalone one.
C20_RankedAndCapped == \A i \in DOMAIN runs : C20_Ranked(runs[i])

\* the standalone pipeline ranks and caps
C20_StandaloneRanks ==
    variant = "standalone" => \A i \in DOMAIN runs : C20_Ranked(runs[i])

\* the package pipeline attaches every candidate, in the order of the corpus
C20_PackageKeepsAll ==
    variant = "package" =>
        \A i \in DOMAIN runs :
            /\ Len(runs[i].synthesis) = Cardinality(C20_Candidates(runs[i]))
            /\ \A k \in DOMAIN runs[i].synthesis : \A l \in DOMAIN runs[i].synthesis :
                   k < l =>
                       \E a \in DOMAIN corpus : \E b \in DOMAIN corpus :
                           /\ a < b
                           /\ corpus[a].packet_id = runs[i].synthesis[k].related_packet_id
                           /\ corpus[b].packet_id = runs[i].synthesis[l].related_packet_id

\* six candidates, the first a weak one: the standalone keeps the five strong ones
C20_WitnessStandalone ==
    /\ variant = "standalone"
    /\ Len(runs) = 1
    /\ Cardinality(C20_Candidates(runs[1])) = 6
    /\ Len(runs[1].synthesis) = 5
    /\ \A k \in 1..5 : runs[1].synthesis[k].strength = One
    /\ \A k \in 1..5 : runs[1].synthesis[k].related_packet_id # corpus[1].packet_id

\* the same corpus in the package: six connections, the weak one first
C20_WitnessPackage ==
    /\ variant = "package"
    /\ Len(runs) = 1
    /\ Len(runs[1].synthesis) = 6
    /\ runs[1].synthesis[1].strength < runs[1].synthesis[2].strength
-----------------------------------------------------------------------------
(* Properties of the connection type (Spec) *)

\* the type the phrase tests on a record's own abstract give, in fixed priority
C21_TypeOf(abstract) ==
    IF InText("builds on", lower(abstract)) THEN "builds_on"
    ELSE IF InText("validates", lower(abstract)) THEN "validates"
    ELSE IF InText("extends", lower(abstract)) THEN "extends"
    ELSE "related"

\* the corpus entry a connection points at
C21_Other(c) == CHOOSE j \in DOMAIN corpus : corpus[j].packet_id = c.related_packet_id

\* C21: every connection of one synthesis_agent call carries the type the phrase
\* tests on the current record's abstract give ('builds on', else 'validates',
\* else 'extends', else related); the text of the related prior record never
\* changes the type.
C21_TypeFromOwnAbstract ==
    \A i \in DOMAIN runs : \A k \in DOMAIN runs[i].synthesis :
        runs[i].synthesis[k].connection_type = C21_TypeOf(input.abstract)

\* the standalone linker types every connection by the record's own abstract
C21_StandaloneOwnAbstract ==
    variant = "standalone" =>
        \A i \in DOMAIN runs : \A k \in DOMAIN runs[i].synthesis :
            runs[i].synthesis[k].connection_type = C21_TypeOf(input.abstract)

\* the package linker types a connection by the text of the related record:
\* builds_on when it holds 'method' or 'framework', related otherwise
C21_PackageOtherText ==
    variant = "package" =>
        \A i \in DOMAIN runs : \A k \in DOMAIN runs[i].synthesis :
            LET other_text == lower(OtherText(corpus[C21_Other(runs[i].synthesis[k])]))
            IN  runs[i].synthesis[k].connection_type =
                    IF InText("method", other_text) \/ InText("framework", other_text)
                    THEN "builds_on" ELSE "related"

\* a standalone call with two connections, typed by the 'builds on' of its abstract
C21_WitnessStandalone ==
    /\ variant = "standalone"
    /\ Len(runs) = 1
    /\ Len(runs[1].synthesis) >= 1
    /\ InText("builds on", lower(input.abstract))
    /\ runs[1].synthesis[1].connection_type = "builds_on"

\* a package call whose two connections differ in type
C21_WitnessPackage ==
    /\ variant = "package"
    /\ Len(runs) = 1
    /\ Len(runs[1].synthesis) >= 2
    /\ runs[1].synthesis[1].connection_type # runs[1].synthesis[2].connection_type
-----------------------------------------------------------------------------
(* Properties of the support level (Spec) *)

\* the heuristic score of an abstract: 0.4 and 0.2 for each of 'experiment',
\* 'field test' and 'replicated'/'reproduced', capped at 1.0
C22_Heuristic(abstract) ==
    LET a == lower(abstract)
    IN  Min(One, Pct(40)
                 + (IF InText("experiment", a) THEN Pct(20) ELSE 0)
                 + (IF InText("field test", a) THEN Pct(20) ELSE 0)
                 + (IF InText("replicated", a) \/ InText("reproduced", a)
                    THEN Pct(20) ELSE 0))

\* the floor of a validation-type tag; 0 where the tag has none
C22_Floor(tag) ==
    CASE tag = "ai_system" -> Pct(70)
      [] tag = "experiment" -> Pct(80)
      [] tag = "field_test" -> Pct(90)
      [] OTHER -> 0

C22_Tags == {"ai_system", "experiment", "field_test", "theoretical", "peer_review"}

\* C22: the support level of an empirical assessment is the larger of the capped
\* heuristic score of the abstract and the floor of its validation-type tag
\* (ai_system 0.7, experiment 0.8, field_test 0.9, none otherwise); the tag never
\* lowers a heuristic score above its floor.
C22_SupportIsFlooredHeuristic ==
    \A i \in DOMAIN runs : \A k \in DOMAIN runs[i].empirical :
        runs[i].empirical[k].support_level =
            Max(C22_Heuristic(input.abstract), C22_Floor(runs[i].empirical[k].validation_type))

\* the package scorer computes the floored heuristic score, whatever the tag
C22_PackageFlooredHeuristic ==
    \A tag \in C22_Tags :
        empirical_agent_pkg(input.abstract, tag, input.source, clock).support_level =
            Max(C22_Heuristic(input.abstract), C22_Floor(tag))

\* the standalone scorer gives the value of the tag it inferred, 0.5 without one,
\* whatever the abstract earns
C22_StandaloneTagOnly ==
    variant = "standalone" =>
        \A i \in DOMAIN runs : \A k \in DOMAIN runs[i].empirical :
            runs[i].empirical[k].support_level =
                CASE runs[i].empirical[k].validation_type = "ai_system" -> Pct(70)
                  [] runs[i].empirical[k].validation_type = "experiment" -> Pct(80)
                  [] runs[i].empirical[k].validation_type = "field_test" -> Pct(90)
                  [] OTHER -> Pct(50)

\* a package run whose abstract earns 1.0 keeps 1.0 under the ai_system tag
C22_WitnessPackage ==
    /\ variant = "package"
    /\ Len(runs) = 1
    /\ C22_Heuristic(input.abstract) = One
    /\ runs[1].empirical[1].validation_type = "ai_system"
    /\ runs[1].empirical[1].support_level = One

\* a standalone run whose abstract earns 1.0 and is given 0.9
C22_WitnessStandalone ==
    /\ variant = "standalone"
    /\ Len(runs) = 1
    /\ C22_Heuristic(input.abstract) = One
    /\ runs[1].empirical[1].support_level = Pct(90)
-----------------------------------------------------------------------------
(* Properties of the similarity test of novelty_agent (SpecTokens) *)

\* the tokens of a text that are alphanumeric and longer than 4 characters
C23_Tokens(text) == {LowerWord[text[i]] : i \in {j \in DOMAIN text : IsKeyword[text[j]]}}

\* more than 5 such tokens shared by the record and the prior record
C23_Shares(j) ==
    Cardinality(C23_Tokens(Cat(input.title, input.abstract))
                \cap C23_Tokens(Cat(corpus[j].title, corpus[j].abstract))) > 5

\* the prior record is among those the run counted as similar
C23_Counted(p, j) == corpus[j].packet_id \in Range(p.novelty.lineage)

\* C23: novelty_agent counts a prior record as similar exactly when the
\* alphanumeric tokens longer than 4 characters of the two title+abstract texts
\* share more than 5 tokens; short and non-alphanumeric tokens never count.
C23_SimilarByLongTokens ==
    \A i \in DOMAIN runs : \A j \in DOMAIN corpus :
        C23_Counted(runs[i], j) <=> C23_Shares(j)

\* the package counts every whitespace token of the lower-cased texts, short
\* words and words with punctuation included
C23_PackageAllTokens ==
    variant = "package" =>
        \A i \in DOMAIN runs : \A j \in DOMAIN corpus :
            C23_Counted(runs[i], j) <=>
                Cardinality(Range(lower(Cat(input.title, input.abstract)))
                            \cap Range(lower(Cat(corpus[j].title, corpus[j].abstract)))) > 5

\* the standalone counts a prior record when a word of the record's title
\* occurs inside the prior title
C23_StandaloneTitleWord ==
    variant = "standalone" =>
        \A i \in DOMAIN runs : \A j \in DOMAIN corpus :
            C23_Counted(runs[i], j) <=>
                \E k \in DOMAIN input.title : \E l \in DOMAIN corpus[j].title :
                    Contains(LowerWord[input.title[k]], LowerWord[corpus[j].title[l]])

\* a package run that counts a prior record on the strength of short words
C23_WitnessPackage ==
    /\ variant = "package"
    /\ Len(runs) = 1
    /\ Len(corpus) = 1
    /\ C23_Counted(runs[1], 1)
    /\ ~C23_Shares(1)

\* a standalone run that counts a prior record sharing one title word
C23_WitnessStandalone ==
    /\ variant = "standalone"
    /\ Len(runs) = 1
    /\ Len(corpus) = 1
    /\ corpus[1].title = <<"Literacy">>
    /\ C23_Counted(runs[1], 1)
    /\ ~C23_Shares(1)
-----------------------------------------------------------------------------
(* Properties of the lineage (SpecRank) *)

\* the prior records the variant at hand counts as similar to the record
C24_Similar ==
    {j \in DOMAIN corpus :
        IF variant = "package"
        THEN Cardinality(Range(lower(Cat(input.title, input.abstract)))
                         \cap Range(lower(Cat(corpus[j].title, corpus[j].abstract)))) > 5
        ELSE \E k \in DOMAIN input.title : \E l \in DOMAIN corpus[j].title :
                 Contains(LowerWord[input.title[k]], LowerWord[corpus[j].title[l]])}

\* C24: the lineage holds the ids of the first min(5, n) similar prior records
\* in corpus order, n the number of similar records: at most 5 entries, none of
\* a record that is not similar, the k-th entry the k-th similar record.
C24_LineageIsFirstFiveSimilar ==
    \A i \in DOMAIN runs :
        LET lineage == runs[i].novelty.lineage
        IN  /\ Len(lineage) = Min(5, Cardinality(C24_Similar))
            /\ \A k \in DOMAIN lineage :
                   \E j \in C24_Similar :
                       /\ corpus[j].packet_id = lineage[k]
                       /\ Cardinality({l \in C24_Similar : l < j}) = k - 1

\* six similar records: the lineage holds the first five
C24_WitnessCapped ==
    /\ Len(runs) = 1
    /\ Cardinality(C24_Similar) = 6
    /\ runs[1].novelty.lineage = <<"p1", "p2", "p3", "p4", "p5">>

\* records that are not similar in between: the lineage skips them and keeps the order
C24_WitnessSkips ==
    /\ Len(runs) = 1
    /\ variant = "package"
    /\ Len(corpus) = 6
    /\ C24_Similar = {2, 4, 6}
    /\ runs[1].novelty.lineage = <<"p2", "p4", "p6">>
-----------------------------------------------------------------------------
(* Properties of the dependencies (SpecDeps) *)

\* the tokens the three patterns capture in the abstract, each as often as captured
C25_Captured == ExtractDependencies(input.abstract)

\* no entry of the list occurs twice
C25_Distinct(deps) ==
    \A k \in DOMAIN deps : \A l \in DOMAIN deps : k # l => deps[k] # deps[l]

\* C25: the dependencies of a theoretical assessment are the captured tokens
\* without duplicates: a token captured more than once, by one pattern or by
\* several, appears exactly once.
C25_DependenciesDistinct ==
    \A i \in DOMAIN runs :
        /\ Range(runs[i].theoretical.dependencies) = Range(C25_Captured)
        /\ C25_Distinct(runs[i].theoretical.dependencies)

\* the standalone scorer returns every captured token once
C25_StandaloneDistinct ==
    variant = "standalone" =>
        \A i \in DOMAIN runs :
            /\ Range(runs[i].theoretical.dependencies) = Range(C25_Captured)
            /\ C25_Distinct(runs[i].theoretical.dependencies)

\* the package scorer returns the captured tokens as captured, repeats included
C25_PackageKeepsRepeats ==
    variant = "package" =>
        \A i \in DOMAIN runs : runs[i].theoretical.dependencies = C25_Captured

\* a standalone run on an abstract that names one token by two patterns
C25_WitnessStandalone ==
    /\ variant = "standalone"
    /\ Len(runs) = 1
    /\ ~C25_Distinct(C25_Captured)
    /\ C25_Distinct(runs[1].theoretical.dependencies)
    /\ Len(runs[1].theoretical.dependencies) >= 2

\* the same in the package: the token is listed twice
C25_WitnessPackage ==
    /\ variant = "package"
    /\ Len(runs) = 1
    /\ ~C25_Distinct(runs[1].theoretical.dependencies)
-----------------------------------------------------------------------------
(* Properties of the config file level (SpecPath) *)

\* no CLI path, no environment variable, no project, and a valid config file
\* whose default_database is null, as in the template
C26_NullDefault ==
    /\ ~Truthy(args.cli_path)
    /\ ~Truthy(environ.var)
    /\ ~Truthy(args.project)
    /\ environ.config.exists
    /\ environ.config.valid
    /\ "default_database" \in DOMAIN environ.config.json
    /\ environ.config.json.default_database = None

\* C26: with a config file whose default_database is null, no CLI path, no
\* environment variable and no project, get_database_path returns the local
\* default research_db.json without raising.
C26_NullDefaultFallsBack ==
    (C26_NullDefault /\ outcome # None) => outcome = Returned(DEFAULT_DATABASE)

\* what it does instead: Path(None) raises TypeError
C26_NullDefaultRaises ==
    (C26_NullDefault /\ outcome # None) => outcome = Raised("TypeError")

\* the template config file, resolved without any other source
C26_Witness ==
    /\ C26_NullDefault
    /\ "projects" \in DOMAIN environ.config.json
    /\ args.cli_path = None
    /\ environ.var = None
    /\ outcome = Raised("TypeError")

\* a project is asked for, without CLI path and environment variable, and the
\* valid config file does not define it
C27_UndefinedProject ==
    /\ ~Truthy(args.cli_path)
    /\ ~Truthy(environ.var)
    /\ Truthy(args.project)
    /\ environ.config.exists
    /\ environ.config.valid
    /\ \/ "projects" \notin DOMAIN environ.config.json
       \/ args.project.str \notin DOMAIN environ.config.json.projects

\* C27: asked for a project the valid config file does not define, without CLI
\* path and environment variable, get_database_path raises ValueError; it never
\* resolves to default_database or to the local default.
C27_UndefinedProjectRaises ==
    (C27_UndefinedProject /\ outcome # None) => outcome = Raised("ValueError")

\* it raises ValueError when the config file has a projects section without the name
C27_RaisesWhenSectionLacksProject ==
    (/\ C27_UndefinedProject
     /\ "projects" \in DOMAIN environ.config.json
     /\ outcome # None) => outcome = Raised("ValueError")

\* without a projects section the project is ignored: the result is that of
\* the same call without a project
C27_IgnoredWithoutSection ==
    (/\ C27_UndefinedProject
     /\ "projects" \notin DOMAIN environ.config.json
     /\ outcome # None) => outcome = get_database_path(None, None, environ)

\* a projects section without the name: ValueError
C27_WitnessRaises ==
    /\ C27_UndefinedProject
    /\ args.project = Str("y")
    /\ "projects" \in DOMAIN environ.config.json
    /\ "x" \in DOMAIN environ.config.json.projects
    /\ outcome = Raised("ValueError")

\* no projects section: the config's default_database is returned
C27_WitnessSilent ==
    /\ C27_UndefinedProject
    /\ environ.config.json = [default_database |-> Str("/d.json")]
    /\ outcome = Returned("/d.json")
-----------------------------------------------------------------------------
(* Properties of the decisions of the package pipeline (Spec) *)

\* C28: every packet the package process_research_item returns is routed to
\* ACTIVE_DEVELOPMENT, DROP or DOCUMENTATION, never to BACKLOG, SYNTHESIS_NEEDED
\* or ARCHIVE: its one evidence entry is tagged ai_system with a support of at
\* least 0.7, its theoretical score is at least 0.3 and its status is 'draft'.
C28_PackageDecisions ==
    variant = "package" =>
        \A i \in DOMAIN runs :
            /\ runs[i].routing_decision \in {"active_development", "drop", "documentation"}
            /\ Len(runs[i].empirical) = 1
            /\ runs[i].empirical[1].validation_type = "ai_system"
            /\ runs[i].empirical[1].support_level >= Pct(70)
            /\ runs[i].theoretical.score >= Pct(30)
            /\ runs[i].status = "draft"

\* a package packet that claims a paradigm shift without a breakthrough, on an
\* abstract that earns 0.4 by itself: the tag lifts the support to 0.7 and the
\* packet is not sent to synthesis
C28_WitnessParadigm ==
    /\ variant = "package"
    /\ Len(runs) = 1
    /\ runs[1].novelty.paradigm_shift
    /\ C22_Heuristic(input.abstract) = Pct(40)
    /\ runs[1].empirical[1].support_level = Pct(70)
    /\ runs[1].theoretical.breakthrough_potential <= Pct(70)
    /\ runs[1].routing_decision \in {"drop", "documentation", "active_development"}

\* package packets routed to DROP and to DOCUMENTATION
C28_WitnessDrop ==
    /\ variant = "package"
    /\ Len(runs) = 1
    /\ runs[1].routing_decision = "drop"

C28_WitnessDocumentation ==
    /\ variant = "package"
    /\ Len(runs) = 1
    /\ runs[1].routing_decision = "documentation"
-----------------------------------------------------------------------------
(* Properties of successive creates (SpecCli) *)

\* the packets a database file holds
C29_Stored(file) == IF file.exists THEN file.data ELSE <<>>

\* a step that is one run of `create` with a tag of the enumeration and that
\* gets as far as load_database (the path was resolved)
C29_Create ==
    /\ MainStandalone \/ MainPackage
    /\ ~ParseFails(args')
    /\ outcome' # Raised("TypeError")

\* C29: each create on a database file of n packets succeeds and leaves n + 1
\* packets in it, the n earlier ones unchanged and in order, followed by the new
\* one; so k creates on a missing file leave exactly k packets.
C29_EachCreateAddsOne ==
    [][C29_Create =>
          /\ "returned" \in DOMAIN outcome'
          /\ \E p \in FilePaths :
                /\ Len(C29_Stored(files'[p])) = Len(C29_Stored(files[p])) + 1
                /\ SubSeq(C29_Stored(files'[p]), 1, Len(C29_Stored(files[p]))) =
                       C29_Stored(files[p])
                /\ C29_Stored(files'[p])[Len(C29_Stored(files'[p]))].packet_id =
                       outcome'.returned
                /\ \A q \in FilePaths \ {p} : files'[q] = files[q]]_vars

\* the standalone create on a missing file succeeds and leaves one packet
C29_FirstCreateAddsOne ==
    [][(MainStandalone /\ ~ParseFails(args') /\ ~files[args'.database.str].exists) =>
          /\ "returned" \in DOMAIN outcome'
          /\ Len(files'[args'.database.str].data) = 1
          /\ files'[args'.database.str].data[1].packet_id = outcome'.returned]_vars

\* the standalone create on a file that holds packets ends in AttributeError
\* and leaves every file as it was
C29_LaterCreateRaises ==
    [][(MainStandalone /\ ~ParseFails(args') /\ files[args'.database.str].exists) =>
          /\ outcome' = Raised("AttributeError")
          /\ files' = files]_vars

\* two standalone creates on one path: the second raised, the file holds one packet
C29_Witness ==
    /\ variant = "standalone"
    /\ clock = 3
    /\ outcome = Raised("AttributeError")
    /\ args.type \in ResearchTypeValues
    /\ Len(packets) = 2
    /\ files[args.database.str].exists
    /\ Len(files[args.database.str].data) = 1
-----------------------------------------------------------------------------
(* Properties of the storage round trip (SpecCli) *)

\* the list the process holds is one save_database accepts: packets as
\* process_research_item returned them
C30_Saveable == packets # <<>> /\ ~SaveRaises(packets)

\* what load_database returns for the file save_database writes
C30_Reloaded == load_database(save_database(packets))

\* C30: load_database after save_database returns as many packets, in the same
\* order, each equal to the saved one in every field: the nested assessments
\* come back as the same assessment objects and the timestamps of the evidence
\* as datetimes.
C30_RoundTrip == C30_Saveable => C30_Reloaded = packets

\* the fields of a packet that hold no assessment
C30_PlainFields ==
    {"packet_id", "title", "research_type", "timestamp", "source", "source_location",
     "pictogram_hash", "vse_encoding", "chrono_marker", "abstract", "key_findings",
     "methodology", "open_questions", "routing_decision", "priority_score", "tags",
     "collaborators", "status"}

\* number, order and the fields that hold no assessment survive the round trip
C30_PlainFieldsSurvive ==
    C30_Saveable =>
        /\ Len(C30_Reloaded) = Len(packets)
        /\ \A k \in DOMAIN packets : \A f \in C30_PlainFields :
               C30_Reloaded[k][f] = packets[k][f]

\* the assessments come back as dicts of the same content, the timestamp of an
\* evidence entry as its ISO text
C30_AssessmentsComeBackAsDicts ==
    C30_Saveable =>
        \A k \in DOMAIN packets :
            /\ C30_Reloaded[k].theoretical = Dict(packets[k].theoretical)
            /\ C30_Reloaded[k].novelty = Dict(packets[k].novelty)
            /\ C30_Reloaded[k].impact = Dict(packets[k].impact)
            /\ \A i \in DOMAIN packets[k].synthesis :
                   C30_Reloaded[k].synthesis[i] = Dict(packets[k].synthesis[i])
            /\ \A i \in DOMAIN packets[k].empirical :
                   C30_Reloaded[k].empirical[i] =
                       Dict([packets[k].empirical[i] EXCEPT !.timestamp = isoformat(@)])

\* two packets created in one process and saved, the second connected to the first
C30_Witness ==
    /\ C30_Saveable
    /\ Len(packets) = 2
    /\ "returned" \in DOMAIN outcome
    /\ packets[2].synthesis # <<>>
    /\ \E p \in FilePaths : files[p] = save_database(packets)

=============================================================================
